---- MODULE Spec2Model ----
(***************************************************************************)
(* Streaming terminal UI core of code-assistant: the TerminalRenderer      *)
(* (renderer.rs), its StreamingController (streaming/*.rs) and the         *)
(* TranscriptState (transcript.rs, message.rs).                            *)
(*                                                                         *)
(* Text is a sequence of one-character strings.  A ratatui Line is a record *)
(* [style, indent, txt, lead]: txt its characters, indent whether the      *)
(* two-space indent span was put in front (indent_lines), style what its   *)
(* spans look like:                                                        *)
(*   "plain"    markdown spans as rendered; with no text and no indent it  *)
(*              is Line::from(""), the blank separator line                *)
(*   "thinking" DarkGray/DIM/ITALIC spans       (style_thinking_lines)     *)
(*   "tool"     the "● name" header of a tool block                        *)
(*   "toolbody" a parameter, error or output line under a tool header      *)
(*   "pad"      full-width background row of a user block                  *)
(*   "user"     "› " / "  " prefixed row of a user block                   *)
(*   "styled"   a pre-styled line handed to add_styled_history_lines       *)
(* The spaces that pad a rendered row to the full width are left out.      *)
(* lead is bookkeeping the code does not have: on the header of a tool     *)
(* block, whether text or thinking of the same message had reached the     *)
(* history when the tool block was started.                                *)
(* Time is kept as elapsed milliseconds (the age of a queued line, the     *)
(* time since a policy timer was set), which is all the code ever reads    *)
(* from an Instant.                                                        *)
(***************************************************************************)
EXTENDS Integers, Sequences, FiniteSets, TLC

\* ------------------------------------------------------------------ bounds
MaxEvents      == 2   \* UI events delivered to the renderer in one run
MaxQuietEvents == 4   \* the same, in a run where the overlay stays closed, the
                      \* terminal keeps its width and no time passes
MaxAppEvents   == 4   \* key, paste and session events handled by the event loop
MaxTextAreaOps == 4   \* operations on the textarea

NL == "\n"
SP == " "
Kinds == {"Text", "Thinking"}
Other(kind) == IF kind = "Text" THEN "Thinking" ELSE "Text"

\* Inputs.  Every source line they can build is either blank or one word, so
\* wrapping a line is cutting it every `width` columns.
Deltas   == { <<>>, <<"a">>, <<"a", NL>>, <<NL>>, <<NL, "a">> }
Widths   == {4, 5}                 \* terminal widths given to prepare()
StartWidth == CHOOSE w \in Widths : \A v \in Widths : w <= v   \* before any resize
ToolIds  == <<"t1", "t2", "t3", "t4", "t5", "t6">>   \* in order of arrival
ToolName == "edit"
Contents == { <<"u">> }            \* user / instruction message contents
ElapseMs == {150}                  \* clock advances between operations
PolicyQueued == {0, 2, 3, 8, 64}   \* queued_lines of a snapshot
PolicyAges == {40, 50, 120, 300}   \* oldest_age of a snapshot with lines, ms
PolicySteps == {50, 100}           \* ms between two calls of the policy
SomeToolIds == {"t1", "t2"}        \* ids a tool event may carry, repeats included
ToolStatuses == {"Running", "Error"}
EdgeContents == { <<>>, <<SP>>, <<"u">> }   \* empty, whitespace-only, ordinary
ActivityStates == {"Idle", "WaitingForResponse", "AgentRunning"}
\* the textarea: what is typed or pasted in one piece, the element of an image
\* paste, and the columns the composer leaves to the text
TypedTexts == { <<"a">>, <<SP>>, <<NL>>, <<"a", "a", "a", "a", "a">> }
ImagePlaceholder == <<"[", "I", "m", "a", "g", "e", " ", "1", "]">>
TextAreaWidths == {8, 20}
\* pastes: with a CRLF, with a lone CR, of exactly the threshold, and two
\* above it with the same number of lines
Pastes ==
  { <<"a", "\r", NL, "b">>, <<"a", "\r", "b">>,
    [i \in 1..200 |-> "z"], [i \in 1..201 |-> "x"], [i \in 1..201 |-> "y"] }
StyledLines ==
  << [style |-> "styled", indent |-> FALSE, txt |-> <<"w">>, lead |-> FALSE] >>

\* ------------------------------------------------------- program constants
ENTER_QUEUE_DEPTH_LINES  == 8
ENTER_OLDEST_AGE         == 120
EXIT_QUEUE_DEPTH_LINES   == 2
EXIT_OLDEST_AGE          == 40
EXIT_HOLD                == 250
REENTER_CATCH_UP_HOLD    == 250
SEVERE_QUEUE_DEPTH_LINES == 64
SEVERE_OLDEST_AGE        == 300
LARGE_PASTE_CHAR_THRESHOLD == 200
InitialWidth             == 80

\* ------------------------------------------------------------ text helpers
Max(a, b) == IF a >= b THEN a ELSE b
Min(a, b) == IF a <= b THEN a ELSE b

\* str::rfind('\n'): 1-based index of the last newline, 0 when there is none
RFindNL(s) ==
  IF \E i \in 1..Len(s) : s[i] = NL
  THEN CHOOSE i \in 1..Len(s) : s[i] = NL /\ \A j \in (i+1)..Len(s) : s[j] # NL
  ELSE 0

FindNL(s) ==
  IF \E i \in 1..Len(s) : s[i] = NL
  THEN CHOOSE i \in 1..Len(s) : s[i] = NL /\ \A j \in 1..(i-1) : s[j] # NL
  ELSE 0

ContainsNL(s) == \E i \in 1..Len(s) : s[i] = NL

\* str::trim() on a newline-free string
IsSpaces(s) == \A i \in 1..Len(s) : s[i] = SP \/ s[i] = NL
Trim(s) ==
  IF IsSpaces(s) THEN <<>>
  ELSE LET lo == CHOOSE i \in 1..Len(s) : s[i] # SP /\ \A j \in 1..(i-1) : s[j] = SP
           hi == CHOOSE i \in 1..Len(s) : s[i] # SP /\ \A j \in (i+1)..Len(s) : s[j] = SP
       IN SubSeq(s, lo, hi)

\* The lines of a markdown source: the pieces between newlines; a trailing
\* newline does not open another line.
RECURSIVE SourceLines(_)
SourceLines(s) ==
  IF s = <<>> THEN <<>>
  ELSE LET i == FindNL(s)
       IN IF i = 0 THEN <<s>>
          ELSE <<SubSeq(s, 1, i-1)>> \o SourceLines(SubSeq(s, i+1, Len(s)))

\* Paragraph::wrap on a single word: rows of `w` columns (w = 0: no wrapping)
RECURSIVE WrapLine(_, _)
WrapLine(l, w) ==
  IF w = 0 \/ Len(l) <= w THEN <<l>>
  ELSE <<SubSeq(l, 1, w)>> \o WrapLine(SubSeq(l, w+1, Len(l)), w)

\* tui_markdown on plain paragraphs: a soft break starts a new line, a run of
\* blank source lines becomes one blank line between two paragraphs, blank
\* lines before the first and after the last paragraph give nothing.
RECURSIVE RenderParagraphs(_, _, _, _)
RenderParagraphs(ls, w, inPara, any) ==
  IF ls = <<>> THEN <<>>
  ELSE IF IsSpaces(Head(ls)) THEN RenderParagraphs(Tail(ls), w, FALSE, any)
  ELSE (IF any /\ ~inPara THEN << <<>> >> ELSE <<>>)
       \o WrapLine(Trim(Head(ls)), w)
       \o RenderParagraphs(Tail(ls), w, TRUE, TRUE)

\* render_markdown_lines(source, width); width 0 stands for None
Line(tag, txt) == [style |-> tag, indent |-> FALSE, txt |-> txt, lead |-> FALSE]
BlankLine == Line("plain", <<>>)

render_markdown_lines(source, w) ==
  LET Lines(rows) == IF rows = <<>> THEN << BlankLine >>
                     ELSE [i \in 1..Len(rows) |-> Line("plain", rows[i])]
  IN Lines(RenderParagraphs(SourceLines(source), w, FALSE, FALSE))

is_blank_line_spaces_only(line) == IsSpaces(line.txt)


\* ------------------------------------- MarkdownStreamCollector / StreamState
\* One StreamState (with its collector) per stream kind:
\*   buffer, committed_line_count, width (0 = None)   the collector
\*   queued_lines : Seq([line, age])                  QueuedLine{line, enqueued_at}
\*   has_seen_delta
NewStreamState ==
  [buffer |-> <<>>, committed_line_count |-> 0, width |-> 0,
   queued_lines |-> <<>>, has_seen_delta |-> FALSE]

push_delta(c, delta) == [c EXCEPT !.buffer = @ \o delta]

current_tail(c) == SubSeq(c.buffer, RFindNL(c.buffer) + 1, Len(c.buffer))

\* MarkdownStreamCollector::clear
collector_clear(c) == [c EXCEPT !.buffer = <<>>, !.committed_line_count = 0]

\* Fault variant of commit_complete_lines: the committed_line_count watermark is
\* not advanced, so completed lines are returned again by the next call.
commit_complete_lines_stale_watermark(c) ==
  LET last_newline_idx == RFindNL(c.buffer)
      Commit(rendered) ==
        [c |-> c, out |-> SubSeq(rendered, c.committed_line_count + 1, Len(rendered))]
  IN IF last_newline_idx = 0 THEN [c |-> c, out |-> <<>>]
     ELSE Commit(render_markdown_lines(SubSeq(c.buffer, 1, last_newline_idx), c.width))

\* The mutation for C19: the lines are those of the whole buffer, the text
\* after the last newline included
commit_complete_lines_with_tail(c) ==
  LET Commit(rendered) ==
        IF c.committed_line_count >= Len(rendered) THEN [c |-> c, out |-> <<>>]
        ELSE [c   |-> [c EXCEPT !.committed_line_count = Len(rendered)],
              out |-> SubSeq(rendered, c.committed_line_count + 1, Len(rendered))]
  IN IF RFindNL(c.buffer) = 0 THEN [c |-> c, out |-> <<>>]
     ELSE Commit(render_markdown_lines(c.buffer, c.width))

\* Returns [c |-> the collector afterwards, out |-> the newly completed lines]
commit_complete_lines(c) ==
  LET last_newline_idx == RFindNL(c.buffer)
      Count(rendered) ==
        IF Len(rendered) > 0 /\ is_blank_line_spaces_only(rendered[Len(rendered)])
        THEN Len(rendered) - 1 ELSE Len(rendered)
      Commit(rendered, complete_line_count) ==
        IF c.committed_line_count >= complete_line_count THEN [c |-> c, out |-> <<>>]
        ELSE [c   |-> [c EXCEPT !.committed_line_count = complete_line_count],
              out |-> SubSeq(rendered, c.committed_line_count + 1, complete_line_count)]
      Rendered(rendered) == Commit(rendered, Count(rendered))
  IN IF last_newline_idx = 0 THEN [c |-> c, out |-> <<>>]
     ELSE Rendered(render_markdown_lines(SubSeq(c.buffer, 1, last_newline_idx), c.width))

RECURSIVE StripTrailingBlank(_, _, _)
StripTrailingBlank(rendered, end, floor) ==
  IF end > floor /\ is_blank_line_spaces_only(rendered[end])
  THEN StripTrailingBlank(rendered, end - 1, floor)
  ELSE end

finalize_and_drain(c) ==
  LET source == IF c.buffer # <<>> /\ c.buffer[Len(c.buffer)] = NL
                THEN c.buffer ELSE c.buffer \o <<NL>>
      Drain(rendered, end) ==
        [c   |-> collector_clear(c),
         out |-> IF c.committed_line_count >= end THEN <<>>
                 ELSE SubSeq(rendered, c.committed_line_count + 1, end)]
      Rendered(rendered) ==
        Drain(rendered, StripTrailingBlank(rendered, Len(rendered), c.committed_line_count))
  IN Rendered(render_markdown_lines(source, c.width))

\* StreamState::enqueue stamps every line with Instant::now(): age 0
enqueue(c, lines) ==
  [c EXCEPT !.queued_lines =
     @ \o [i \in 1..Len(lines) |-> [line |-> lines[i], age |-> 0]]]

QueueLines(c) == [i \in 1..Len(c.queued_lines) |-> c.queued_lines[i].line]

\* The mutation for C22: the newest lines are taken first
drain_n_newest_first(c, max_lines) ==
  LET end == Min(max_lines, Len(c.queued_lines))
      Taken(q) == [i \in 1..end |-> q[Len(q) + 1 - i].line]
  IN [c   |-> [c EXCEPT !.queued_lines = SubSeq(@, 1, Len(@) - end)],
      out |-> Taken(c.queued_lines)]

drain_n(c, max_lines) ==
  LET end == Min(max_lines, Len(c.queued_lines))
  IN [c   |-> [c EXCEPT !.queued_lines = SubSeq(@, end + 1, Len(@))],
      out |-> SubSeq(QueueLines(c), 1, end)]

drain_all(c) ==
  [c |-> [c EXCEPT !.queued_lines = <<>>], out |-> QueueLines(c)]

queued_len(c) == Len(c.queued_lines)

\* oldest_queued_age: -1 stands for None
oldest_queued_age(c) ==
  IF c.queued_lines = <<>> THEN -1 ELSE c.queued_lines[1].age

stream_state_clear(c) ==
  [collector_clear(c) EXCEPT !.queued_lines = <<>>, !.has_seen_delta = FALSE]

\* --------------------------------------------------- AdaptiveChunkingPolicy
\* mode; below_exit_threshold_since and last_catch_up_exit_at hold the time
\* elapsed since the Instant they store, -1 for None.
NewPolicy ==
  [mode |-> "Smooth", below_exit_threshold_since |-> -1, last_catch_up_exit_at |-> -1]

policy_reset(p) == NewPolicy

\* The mutation for C14: both thresholds are needed to enter
should_enter_catch_up_both(q, age) ==
  q >= ENTER_QUEUE_DEPTH_LINES /\ (age # -1 /\ age >= ENTER_OLDEST_AGE)

\* Fault variant of should_enter_catch_up: the age of the oldest line is ignored.
should_enter_catch_up_depth_only(q, age) == q >= ENTER_QUEUE_DEPTH_LINES

should_enter_catch_up(q, age) ==
  q >= ENTER_QUEUE_DEPTH_LINES \/ (age # -1 /\ age >= ENTER_OLDEST_AGE)

should_exit_catch_up(q, age) ==
  q <= EXIT_QUEUE_DEPTH_LINES /\ (age # -1 /\ age <= EXIT_OLDEST_AGE)

is_severe_backlog(q, age) ==
  q >= SEVERE_QUEUE_DEPTH_LINES \/ (age # -1 /\ age >= SEVERE_OLDEST_AGE)

\* The mutation for C16: leaving CatchUp holds nothing back
reentry_hold_active_never(p) == FALSE

reentry_hold_active(p) ==
  p.last_catch_up_exit_at # -1 /\ p.last_catch_up_exit_at < REENTER_CATCH_UP_HOLD

note_catch_up_exit(p) ==
  IF p.mode = "CatchUp" THEN [p EXCEPT !.last_catch_up_exit_at = 0] ELSE p

\* Returns [p, entered]
maybe_enter_catch_up(p, q, age) ==
  IF ~should_enter_catch_up(q, age) THEN [p |-> p, entered |-> FALSE]
  ELSE IF reentry_hold_active(p) /\ ~is_severe_backlog(q, age)
       THEN [p |-> p, entered |-> FALSE]
  ELSE [p |-> [mode |-> "CatchUp", below_exit_threshold_since |-> -1,
               last_catch_up_exit_at |-> -1],
        entered |-> TRUE]

\* The mutation for C15: the first snapshot under the exit limits ends CatchUp
maybe_exit_catch_up_without_hold(p, q, age) ==
  IF ~should_exit_catch_up(q, age) THEN [p EXCEPT !.below_exit_threshold_since = -1]
  ELSE [mode |-> "Smooth", below_exit_threshold_since |-> -1,
        last_catch_up_exit_at |-> 0]

maybe_exit_catch_up(p, q, age) ==
  IF ~should_exit_catch_up(q, age) THEN [p EXCEPT !.below_exit_threshold_since = -1]
  ELSE IF p.below_exit_threshold_since = -1
       THEN [p EXCEPT !.below_exit_threshold_since = 0]
  ELSE IF p.below_exit_threshold_since >= EXIT_HOLD
       THEN [mode |-> "Smooth", below_exit_threshold_since |-> -1,
             last_catch_up_exit_at |-> 0]
  ELSE p

\* decide(snapshot, now): [p, mode, entered_catch_up, plan, n]; plan is
\* "Single" or "Batch" with n lines
decide(p, q, age) ==
  IF q = 0
  THEN [p |-> [note_catch_up_exit(p) EXCEPT !.mode = "Smooth",
                                            !.below_exit_threshold_since = -1],
        mode |-> "Smooth", entered_catch_up |-> FALSE, plan |-> "Single", n |-> 1]
  ELSE
    LET Decision(r) ==
          [p |-> r.p, mode |-> r.p.mode, entered_catch_up |-> r.entered,
           plan |-> IF r.p.mode = "Smooth" THEN "Single" ELSE "Batch",
           n |-> IF r.p.mode = "Smooth" THEN 1 ELSE Max(q, 1)]
    IN Decision(IF p.mode = "Smooth" THEN maybe_enter_catch_up(p, q, age)
                ELSE [p |-> maybe_exit_catch_up(p, q, age), entered |-> FALSE])


\* ------------------------------------------------- LiveMessage / MessageBlock
\* lead: streamed lines of the message were in the history when the tool block
\* was started; the code never reads it.
TextBlock(type, content) ==
  [type |-> type, content |-> content, id |-> "", name |-> "", lead |-> FALSE]
\* An Option is a sequence of at most one element: <<>> is None.
\* parameters: the IndexMap as the sequence of its entries in insertion order.
ToolUseBlock(name, id) ==
  [type |-> "ToolUse", content |-> <<>>, id |-> id, name |-> name, lead |-> FALSE,
   parameters |-> <<>>, status |-> "Pending", status_message |-> <<>>,
   output |-> <<>>]

\* ToolUseBlock::add_or_update_parameter: a known name has the value appended
add_or_update_parameter(tool, name, value) ==
  IF \E i \in 1..Len(tool.parameters) : tool.parameters[i].name = name
  THEN [tool EXCEPT !.parameters =
          [i \in 1..Len(@) |-> IF @[i].name = name
                               THEN [@[i] EXCEPT !.value = @ \o value] ELSE @[i]]]
  ELSE [tool EXCEPT !.parameters = Append(@, [name |-> name, value |-> value])]

\* msg numbers the message for the history of the run (0: not a streamed one);
\* the code never reads it.
NewLiveMessage ==
  [blocks |-> <<>>, finalized |-> FALSE, streamed_to_scrollback |-> FALSE, msg |-> 0]

add_block(m, block) == [m EXCEPT !.blocks = Append(@, block)]

\* MessageBlock::has_content
block_has_content(b) ==
  IF b.type = "ToolUse" THEN b.name # "" ELSE ~IsSpaces(b.content)

\* LiveMessage::has_content
has_content(m) == \E i \in 1..Len(m.blocks) : block_has_content(m.blocks[i])

get_tool_block(m, tool_id) ==
  {i \in 1..Len(m.blocks) : m.blocks[i].type = "ToolUse" /\ m.blocks[i].id = tool_id}

\* ------------------------------------------------------------ history lines
\* a line without spans, or whose spans are all empty
IsBlank(l) == l.txt = <<>> /\ ~l.indent /\ l.style \in {"plain", "thinking"}

indent_lines(lines) == [i \in 1..Len(lines) |-> [lines[i] EXCEPT !.indent = TRUE]]
style_thinking_lines(lines) ==
  [i \in 1..Len(lines) |-> [lines[i] EXCEPT !.style = "thinking"]]

\* str::split('\n'): a trailing newline leaves an empty last piece
RECURSIVE SplitOnNL(_)
SplitOnNL(s) ==
  LET i == FindNL(s)
  IN IF i = 0 THEN <<s>>
     ELSE <<SubSeq(s, 1, i-1)>> \o SplitOnNL(SubSeq(s, i+1, Len(s)))

RECURSIVE UserRows(_, _)
UserRows(pieces, wrap_width) ==
  IF pieces = <<>> THEN <<>>
  ELSE LET rows == WrapLine(Head(pieces), wrap_width)
       IN [i \in 1..Len(rows) |-> Line("user", rows[i])]
          \o UserRows(Tail(pieces), wrap_width)

push_user_text_history_lines(content, width) ==
  IF content = <<>> THEN <<>>
  ELSE LET wrap_width == IF width > 3 THEN width - 3 ELSE Max(width, 1)
       IN <<BlankLine, Line("pad", <<>>)>>
          \o UserRows(SplitOnNL(content), wrap_width)
          \o <<Line("pad", <<>>), BlankLine>>

\* str::lines: the pieces between newlines, without the empty piece that
\* follows a final newline
StrLines(s) ==
  LET Pieces(ps) == IF ps[Len(ps)] = <<>> THEN SubSeq(ps, 1, Len(ps) - 1) ELSE ps
  IN Pieces(SplitOnNL(s))

\* "  {name}: {line}" for each line of each parameter value
RECURSIVE ParameterLines(_)
ParameterLines(parameters) ==
  IF parameters = <<>> THEN <<>>
  ELSE LET Rows(name, ls) ==
             [i \in 1..Len(ls) |-> Line("toolbody", <<name, ":", SP>> \o ls[i])]
       IN Rows(Head(parameters).name, StrLines(Head(parameters).value))
          \o ParameterLines(Tail(parameters))

\* Every renderer starts a tool block with its "● name" header line; the
\* lines under it are those of the generic rendering.
push_tool_history_lines(tool) ==
  LET Rows(ls) == [i \in 1..Len(ls) |-> Line("toolbody", ls[i])]
      Message == IF tool.status_message # <<>> /\ tool.status = "Error"
                 THEN <<Line("toolbody", tool.status_message[1])>> ELSE <<>>
      Output == IF tool.output # <<>> THEN Rows(StrLines(tool.output[1])) ELSE <<>>
  IN << [Line("tool", <<tool.name>>) EXCEPT !.lead = tool.lead] >>
     \o ParameterLines(tool.parameters) \o Message \o Output

BlockHistoryLines(b, width, streamedOnly) ==
  LET render_width == IF width > 2 THEN width - 2 ELSE width
  IN CASE b.type = "PlainText" ->
            IF streamedOnly \/ b.content = <<>> THEN <<>>
            ELSE indent_lines(render_markdown_lines(b.content, render_width))
       [] b.type = "Thinking" ->
            IF streamedOnly \/ IsSpaces(b.content) THEN <<>>
            ELSE indent_lines(style_thinking_lines(
                                render_markdown_lines(b.content, render_width)))
       [] b.type = "UserText" -> push_user_text_history_lines(b.content, width)
       [] OTHER -> push_tool_history_lines(b)

\* The loop shared by as_history_lines and as_history_lines_non_streamed_only:
\* a blank line goes between two blocks unless the lines so far end in one.
RECURSIVE JoinBlocks(_, _, _, _)
JoinBlocks(blocks, width, streamedOnly, lines) ==
  IF blocks = <<>> THEN lines
  ELSE LET Sep(new) == IF new # <<>> /\ lines # <<>> /\ ~IsBlank(lines[Len(lines)])
                       THEN <<BlankLine>> ELSE <<>>
           Joined(new) == lines \o Sep(new) \o new
       IN JoinBlocks(Tail(blocks), width, streamedOnly,
                     Joined(BlockHistoryLines(Head(blocks), width, streamedOnly)))

as_history_lines(message, width) == JoinBlocks(message.blocks, width, FALSE, <<>>)

as_history_lines_non_streamed_only(message, width) ==
  JoinBlocks(message.blocks, width, TRUE, <<>>)

\* ------------------------------------------------------ live stream blocks
stream_kind_for_block(b) ==
  CASE b.type = "PlainText" -> "Text"
    [] b.type = "Thinking"  -> "Thinking"
    [] OTHER                -> "None"

\* Option<MessageBlock> as a sequence of at most one block
block_for_stream_kind(kind, content) ==
  IF kind = "Text"
  THEN IF content = <<>> THEN <<>> ELSE << TextBlock("PlainText", content) >>
  ELSE IF IsSpaces(content) THEN <<>> ELSE << TextBlock("Thinking", content) >>

RECURSIVE StreamKindsOf(_)
StreamKindsOf(blocks) ==
  IF blocks = <<>> THEN <<>>
  ELSE (IF stream_kind_for_block(Head(blocks)) = "None" THEN <<>>
        ELSE << stream_kind_for_block(Head(blocks)) >>)
       \o StreamKindsOf(Tail(blocks))

InSeq(x, seq) == \E i \in 1..Len(seq) : seq[i] = x

RECURSIVE BlocksForOrder(_, _, _)
BlocksForOrder(order, text_content, thinking_content) ==
  IF order = <<>> THEN <<>>
  ELSE block_for_stream_kind(Head(order),
                             IF Head(order) = "Text" THEN text_content
                             ELSE thinking_content)
       \o BlocksForOrder(Tail(order), text_content, thinking_content)

build_stream_blocks_for_live_message(existing, text_content, thinking_content, lsk) ==
  LET has_text  == text_content # <<>>
      has_think == ~IsSpaces(thinking_content)
      T  == IF has_text THEN <<"Text">> ELSE <<>>
      K  == IF has_think THEN <<"Thinking">> ELSE <<>>
      existing_order == StreamKindsOf(existing)
      order ==
        IF existing_order = <<>>
        THEN IF lsk = "Text" THEN K \o T ELSE T \o K
        ELSE existing_order
             \o (IF has_text /\ ~InSeq("Text", existing_order) THEN <<"Text">> ELSE <<>>)
             \o (IF has_think /\ ~InSeq("Thinking", existing_order)
                 THEN <<"Thinking">> ELSE <<>>)
  IN BlocksForOrder(order, text_content, thinking_content)

RECURSIVE merge_blocks_preserving_stream_slots(_, _)
merge_blocks_preserving_stream_slots(existing, stream_blocks) ==
  IF existing = <<>> THEN stream_blocks
  ELSE IF stream_kind_for_block(Head(existing)) # "None"
       THEN IF stream_blocks # <<>>
            THEN << Head(stream_blocks) >>
                 \o merge_blocks_preserving_stream_slots(Tail(existing), Tail(stream_blocks))
            ELSE merge_blocks_preserving_stream_slots(Tail(existing), stream_blocks)
       ELSE << Head(existing) >>
            \o merge_blocks_preserving_stream_slots(Tail(existing), stream_blocks)


\* ---------------------------------------------------------------- textarea.rs
\* The input text is ASCII: a byte offset is a character offset, and every
\* character is one grapheme of display width 1.  Offsets are the source's
\* (0-based); Slice(s, a, b) is &s[a..b].
Slice(s, a, b) == SubSeq(s, a + 1, b)
FirstOf(set) == CHOOSE i \in set : \A j \in set : i <= j
LastOf(set) == CHOOSE i \in set : \A j \in set : j <= i

WORD_SEPARATORS ==
  {"`", "~", "!", "@", "#", "$", "%", "^", "&", "*", "(", ")", "-", "=", "+",
   "[", "{", "]", "}", "\\", "|", ";", ":", "'", "\"", ",", ".", "<", ">", "/", "?"}
is_word_separator(ch) == ch \in WORD_SEPARATORS
is_whitespace(ch) == ch \in {SP, NL}

NewTextArea ==
  [text |-> <<>>, cursor_pos |-> 0, wrap_cache |-> <<>>, preferred_col |-> <<>>,
   kill_buffer |-> <<>>, elements |-> <<>>]

\* Option<usize>: <<>> or <<index>>
find_element_containing(T, pos) ==
  LET Hit(set) == IF set = {} THEN <<>> ELSE << FirstOf(set) >>
  IN Hit({i \in 1..Len(T.elements) :
            pos > T.elements[i].start /\ pos < T.elements[i].end})

NearerEnd(e, pos) == IF pos - e.start <= e.end - pos THEN e.start ELSE e.end

clamp_pos_to_nearest_boundary(T, pos) ==
  LET Snap(p, idx) == IF idx = <<>> THEN p ELSE NearerEnd(T.elements[idx[1]], p)
      At(p) == Snap(p, find_element_containing(T, p))
  IN At(Min(pos, Len(T.text)))

clamp_pos_for_insertion(T, pos) ==
  LET Snap(p, idx) == IF idx = <<>> THEN p ELSE NearerEnd(T.elements[idx[1]], p)
      At(p) == Snap(p, find_element_containing(T, p))
  IN At(Min(pos, Len(T.text)))

adjust_pos_out_of_elements(T, pos, prefer_start) ==
  LET Snap(idx) == IF idx = <<>> THEN pos
                   ELSE IF prefer_start THEN T.elements[idx[1]].start
                   ELSE T.elements[idx[1]].end
  IN Snap(find_element_containing(T, pos))

shift_elements(elements, at, removed, inserted) ==
  LET Shift(e) ==
        IF e.end <= at THEN e
        ELSE IF e.start >= at + removed
        THEN [start |-> e.start + inserted - removed, end |-> e.end + inserted - removed]
        ELSE [start |-> Min(at, e.start),
              end |-> at + Max(inserted, Max(e.end - (at + removed), 0))]
      Shifted(kept) == [i \in 1..Len(kept) |-> Shift(kept[i])]
  IN Shifted(SelectSeq(elements,
                       LAMBDA e : ~(e.start >= at /\ e.end <= at + removed)))

\* Vec::sort_by_key(|e| e.range.start), a stable sort
RECURSIVE sort_by_start(_)
sort_by_start(es) ==
  LET Place(sorted, e, n) == SubSeq(sorted, 1, n) \o <<e>> \o SubSeq(sorted, n + 1, Len(sorted))
      Insert(sorted, e) ==
        Place(sorted, e, Cardinality({i \in 1..Len(sorted) : sorted[i].start <= e.start}))
  IN IF es = <<>> THEN <<>>
     ELSE Insert(sort_by_start(SubSeq(es, 1, Len(es) - 1)), es[Len(es)])

insert_str_at(T, pos, text) ==
  LET At(p) ==
        [T EXCEPT !.text = Slice(@, 0, p) \o text \o Slice(@, p, Len(@)),
                  !.wrap_cache = <<>>,
                  !.cursor_pos = IF p <= @ THEN @ + Len(text) ELSE @,
                  !.elements = shift_elements(@, p, 0, Len(text)),
                  !.preferred_col = <<>>]
  IN At(clamp_pos_for_insertion(T, pos))

insert_str(T, text) == insert_str_at(T, T.cursor_pos, text)

insert_element(T, text) ==
  LET At(start) ==
        [T EXCEPT !.text = Slice(@, 0, start) \o text \o Slice(@, start, Len(@)),
                  !.wrap_cache = <<>>,
                  !.elements = sort_by_start(
                     Append(shift_elements(@, start, 0, Len(text)),
                            [start |-> start, end |-> start + Len(text)])),
                  !.cursor_pos = start + Len(text),
                  !.preferred_col = <<>>]
  IN At(clamp_pos_for_insertion(T, T.cursor_pos))

has_elements(T) == T.elements # <<>>

\* one pass of `for e in &self.elements`, from element i on
RECURSIVE ExpandPass(_, _, _)
ExpandPass(elements, i, range) ==
  IF i > Len(elements) THEN range
  ELSE ExpandPass(elements, i + 1,
         IF elements[i].start < range.end /\ elements[i].end > range.start
         THEN [start |-> Min(range.start, elements[i].start),
               end |-> Max(range.end, elements[i].end)]
         ELSE range)

\* Fault variant of expand_range_to_element_boundaries: the range is left as it is.
expand_range_to_element_boundaries_not_at_all(T, range) == range

RECURSIVE expand_range_to_element_boundaries(_, _)
expand_range_to_element_boundaries(T, range) ==
  LET Again(r) == IF r = range THEN range
                  ELSE expand_range_to_element_boundaries(T, r)
  IN Again(ExpandPass(T.elements, 1, range))

update_elements_after_replace(elements, start, end, inserted_len) ==
  shift_elements(elements, start, Max(end - start, 0), inserted_len)

replace_range(T, range, text) ==
  LET Clamped(A) == [A EXCEPT !.cursor_pos = clamp_pos_to_nearest_boundary(A, @)]
      Replaced(start, end) ==
        IF start > end THEN T
        ELSE Clamped(
          [T EXCEPT !.text = Slice(@, 0, start) \o text \o Slice(@, end, Len(@)),
                    !.wrap_cache = <<>>,
                    !.preferred_col = <<>>,
                    !.elements = update_elements_after_replace(@, start, end, Len(text)),
                    !.cursor_pos =
                       Min(IF @ < start THEN @
                           ELSE IF @ <= end THEN start + Len(text)
                           ELSE @ + Len(text) - (end - start),
                           Len(T.text) + Len(text) - (end - start))])
      Expanded(r) == Replaced(Min(r.start, Len(T.text)), Min(r.end, Len(T.text)))
  IN Expanded(expand_range_to_element_boundaries(T, range))

set_cursor(T, pos) ==
  [T EXCEPT !.cursor_pos = clamp_pos_to_nearest_boundary(T, Min(pos, Len(T.text))),
            !.preferred_col = <<>>]

prev_atomic_boundary(T, pos) ==
  LET Land(b, idx) == IF idx = <<>> THEN b ELSE T.elements[idx[1]].start
      Jump(set) == IF set # {} THEN T.elements[FirstOf(set)].start
                   ELSE Land(pos - 1, find_element_containing(T, pos - 1))
  IN IF pos = 0 THEN 0
     ELSE Jump({i \in 1..Len(T.elements) :
                  pos > T.elements[i].start /\ pos <= T.elements[i].end})

next_atomic_boundary(T, pos) ==
  LET Land(b, idx) == IF idx = <<>> THEN b ELSE T.elements[idx[1]].end
      Jump(set) == IF set # {} THEN T.elements[FirstOf(set)].end
                   ELSE Land(pos + 1, find_element_containing(T, pos + 1))
  IN IF pos >= Len(T.text) THEN Len(T.text)
     ELSE Jump({i \in 1..Len(T.elements) :
                  pos >= T.elements[i].start /\ pos < T.elements[i].end})

RECURSIVE BackwardTarget(_, _, _)
BackwardTarget(T, target, n) ==
  LET Step(t) == IF t = 0 THEN 0 ELSE BackwardTarget(T, t, n - 1)
  IN IF n = 0 THEN target ELSE Step(prev_atomic_boundary(T, target))

delete_backward(T, n) ==
  IF n = 0 \/ T.cursor_pos = 0 THEN T
  ELSE replace_range(T, [start |-> BackwardTarget(T, T.cursor_pos, n),
                         end |-> T.cursor_pos], <<>>)

RECURSIVE ForwardTarget(_, _, _)
ForwardTarget(T, target, n) ==
  LET Step(t) == IF t >= Len(T.text) THEN t ELSE ForwardTarget(T, t, n - 1)
  IN IF n = 0 THEN target ELSE Step(next_atomic_boundary(T, target))

delete_forward(T, n) ==
  IF n = 0 \/ T.cursor_pos >= Len(T.text) THEN T
  ELSE replace_range(T, [start |-> T.cursor_pos,
                         end |-> ForwardTarget(T, T.cursor_pos, n)], <<>>)

kill_range(T, range) ==
  LET Kill(r) ==
        IF r.start >= r.end THEN T
        ELSE replace_range([T EXCEPT !.kill_buffer = Slice(T.text, r.start, r.end)],
                           r, <<>>)
  IN Kill(expand_range_to_element_boundaries(T, range))

beginning_of_line(T, pos) == RFindNL(Slice(T.text, 0, pos))

end_of_line(T, pos) ==
  LET At(i) == IF i = 0 THEN Len(T.text) ELSE pos + i - 1
  IN At(FindNL(Slice(T.text, pos, Len(T.text))))

beginning_of_current_line(T) == beginning_of_line(T, T.cursor_pos)
end_of_current_line(T) == end_of_line(T, T.cursor_pos)
current_display_col(T) == T.cursor_pos - beginning_of_current_line(T)

beginning_of_previous_word(T) ==
  LET Start(stops) == IF stops = {} THEN 0 ELSE LastOf(stops)
      From(k) ==
        Start({i \in 1..(k - 1) :
                 \/ is_whitespace(T.text[i])
                 \/ is_word_separator(T.text[i]) # is_word_separator(T.text[k])})
      Word(nonws) ==
        IF nonws = {} THEN 0
        ELSE adjust_pos_out_of_elements(T, From(LastOf(nonws)), TRUE)
  IN Word({i \in 1..T.cursor_pos : ~is_whitespace(T.text[i])})

end_of_next_word(T) ==
  LET End(stops) == IF stops = {} THEN Len(T.text) ELSE FirstOf(stops) - 1
      From(k) ==
        End({i \in (k + 1)..Len(T.text) :
               \/ is_whitespace(T.text[i])
               \/ is_word_separator(T.text[i]) # is_word_separator(T.text[k])})
      Word(nonws) ==
        IF nonws = {} THEN Len(T.text)
        ELSE adjust_pos_out_of_elements(T, From(FirstOf(nonws)), FALSE)
  IN Word({i \in (T.cursor_pos + 1)..Len(T.text) : ~is_whitespace(T.text[i])})

delete_backward_word(T) ==
  kill_range(T, [start |-> beginning_of_previous_word(T), end |-> T.cursor_pos])

delete_forward_word(T) ==
  IF end_of_next_word(T) > T.cursor_pos
  THEN kill_range(T, [start |-> T.cursor_pos, end |-> end_of_next_word(T)])
  ELSE T

kill_to_end_of_line(T) ==
  LET Kill(eol) ==
        IF T.cursor_pos = eol
        THEN (IF eol < Len(T.text)
              THEN kill_range(T, [start |-> T.cursor_pos, end |-> eol + 1]) ELSE T)
        ELSE kill_range(T, [start |-> T.cursor_pos, end |-> eol])
  IN Kill(end_of_current_line(T))

kill_to_beginning_of_line(T) ==
  LET Kill(bol) ==
        IF T.cursor_pos = bol
        THEN (IF bol > 0 THEN kill_range(T, [start |-> bol - 1, end |-> bol]) ELSE T)
        ELSE kill_range(T, [start |-> bol, end |-> T.cursor_pos])
  IN Kill(beginning_of_current_line(T))

yank(T) == IF T.kill_buffer = <<>> THEN T ELSE insert_str(T, T.kill_buffer)

move_cursor_left(T) ==
  [T EXCEPT !.cursor_pos = prev_atomic_boundary(T, @), !.preferred_col = <<>>]

move_cursor_right(T) ==
  [T EXCEPT !.cursor_pos = next_atomic_boundary(T, @), !.preferred_col = <<>>]

\* Some(index) always: the first wrapped line starts at 0
wrapped_line_index_by_start(lines, pos) ==
  Cardinality({i \in 1..Len(lines) : lines[i].start <= pos})

move_to_display_col_on_line(T, line_start, line_end, target_col) ==
  IF target_col < line_end - line_start
  THEN [T EXCEPT !.cursor_pos = clamp_pos_to_nearest_boundary(T, line_start + target_col)]
  ELSE [T EXCEPT !.cursor_pos = line_end]

move_cursor_up(T) ==
  LET Target(from) ==
        IF T.preferred_col = <<>> THEN T.cursor_pos - from ELSE T.preferred_col[1]
      Wrapped(lines, idx) ==
        IF idx > 1
        THEN move_to_display_col_on_line(
               [T EXCEPT !.preferred_col = << Target(lines[idx].start) >>],
               lines[idx - 1].start, Max(lines[idx - 1].end - 1, 0),
               Target(lines[idx].start))
        ELSE [T EXCEPT !.cursor_pos = 0, !.preferred_col = <<>>]
      \* prev_nl: the last newline before the cursor, as RFindNL gives it
      Logical(prev_nl) ==
        IF prev_nl # 0
        THEN move_to_display_col_on_line(
               [T EXCEPT !.preferred_col = << Target(beginning_of_current_line(T)) >>],
               RFindNL(Slice(T.text, 0, prev_nl - 1)), prev_nl - 1,
               Target(beginning_of_current_line(T)))
        ELSE [T EXCEPT !.cursor_pos = 0, !.preferred_col = <<>>]
  IN IF T.wrap_cache # <<>>
     THEN Wrapped(T.wrap_cache[1].lines,
                  wrapped_line_index_by_start(T.wrap_cache[1].lines, T.cursor_pos))
     ELSE Logical(RFindNL(Slice(T.text, 0, T.cursor_pos)))

move_cursor_down(T) ==
  LET Target(from) ==
        IF T.preferred_col = <<>> THEN T.cursor_pos - from ELSE T.preferred_col[1]
      Wrapped(lines, idx) ==
        IF idx + 1 <= Len(lines)
        THEN move_to_display_col_on_line(
               [T EXCEPT !.preferred_col = << Target(lines[idx].start) >>],
               lines[idx + 1].start, Max(lines[idx + 1].end - 1, 0),
               Target(lines[idx].start))
        ELSE [T EXCEPT !.cursor_pos = Len(T.text), !.preferred_col = <<>>]
      \* next_nl: the first newline from the cursor on, as FindNL gives it
      Logical(next_nl) ==
        IF next_nl # 0
        THEN move_to_display_col_on_line(
               [T EXCEPT !.preferred_col = << Target(beginning_of_current_line(T)) >>],
               T.cursor_pos + next_nl, end_of_line(T, T.cursor_pos + next_nl),
               Target(beginning_of_current_line(T)))
        ELSE [T EXCEPT !.cursor_pos = Len(T.text), !.preferred_col = <<>>]
  IN IF T.wrap_cache # <<>>
     THEN Wrapped(T.wrap_cache[1].lines,
                  wrapped_line_index_by_start(T.wrap_cache[1].lines, T.cursor_pos))
     ELSE Logical(FindNL(Slice(T.text, T.cursor_pos, Len(T.text))))

move_cursor_to_beginning_of_line(T) == set_cursor(T, beginning_of_current_line(T))
move_cursor_to_end_of_line(T) == set_cursor(T, end_of_current_line(T))

\* textwrap::wrap with Options::new(width) and the FirstFit algorithm, on the
\* lengths of the words.  A word is [len, ws]: its characters and the spaces
\* after it.  The line may be broken after a run of spaces and between "]" and
\* "[" (the Unicode line breaking rules, which are the library's default, on
\* the characters of the inputs); no input has a hyphen.
find_words(line) ==
  LET IsBreak(i) == \/ i = Len(line)
                    \/ line[i] = SP /\ line[i + 1] # SP
                    \/ line[i] = "]" /\ line[i + 1] = "["
      Nth(set, n) == CHOOSE x \in set : Cardinality({y \in set : y <= x}) = n
      Spaces(a, b) == b - LastOf({k \in a..b : k = a \/ line[k] # SP})
      Word(a, b) == [len |-> b - a - Spaces(a, b), ws |-> Spaces(a, b)]
      Words(breaks) ==
        [n \in 1..Cardinality(breaks) |->
           Word(IF n = 1 THEN 0 ELSE Nth(breaks, n - 1), Nth(breaks, n))]
  IN Words({i \in 1..Len(line) : IsBreak(i)})

\* a word wider than the line is cut every line_width columns
RECURSIVE break_words(_, _)
break_words(words, line_width) ==
  IF words = <<>> THEN <<>>
  ELSE IF Head(words).len > line_width
  THEN << [len |-> line_width, ws |-> 0] >>
       \o break_words(<< [len |-> Head(words).len - line_width, ws |-> Head(words).ws] >>
                      \o Tail(words), line_width)
  ELSE << Head(words) >> \o break_words(Tail(words), line_width)

\* line: the fragments of the line being filled, width: its columns so far
RECURSIVE wrap_first_fit(_, _, _, _)
wrap_first_fit(fragments, line_width, line, width) ==
  IF fragments = <<>> THEN << line >>
  ELSE IF width + Head(fragments).len > line_width /\ line # <<>>
  THEN << line >> \o wrap_first_fit(Tail(fragments), line_width, << Head(fragments) >>,
                                    Head(fragments).len + Head(fragments).ws)
  ELSE wrap_first_fit(Tail(fragments), line_width, Append(line, Head(fragments)),
                      width + Head(fragments).len + Head(fragments).ws)

RECURSIVE FragmentsLen(_)
FragmentsLen(fragments) ==
  IF fragments = <<>> THEN 0
  ELSE Head(fragments).len + Head(fragments).ws + FragmentsLen(Tail(fragments))

\* The range of a wrapped line: its text, the spaces after it and one byte more.
RECURSIVE LineRanges(_, _)
LineRanges(wrapped, from) ==
  IF wrapped = <<>> THEN <<>>
  ELSE << [start |-> from, end |-> from + FragmentsLen(Head(wrapped)) + 1] >>
       \o LineRanges(Tail(wrapped), from + FragmentsLen(Head(wrapped)))

\* the wrapped lines of the text from byte `from` on, a line start
RECURSIVE wrap_ranges(_, _, _)
wrap_ranges(text, from, width) ==
  LET Wrap(line) ==
        IF Len(line) < width
        THEN << [start |-> from, end |-> from + Len(line) + 1] >>
        ELSE LineRanges(wrap_first_fit(break_words(find_words(line), width),
                                       width, <<>>, 0), from)
      UpTo(eol) ==
        IF eol = Len(text) THEN Wrap(Slice(text, from, eol))
        ELSE Wrap(Slice(text, from, eol)) \o wrap_ranges(text, eol + 1, width)
      At(i) == UpTo(IF i = 0 THEN Len(text) ELSE from + i - 1)
  IN At(FindNL(Slice(text, from, Len(text))))

\* the cache is filled behind a shared reference
wrapped_lines(T, width) ==
  IF T.wrap_cache # <<>> /\ T.wrap_cache[1].width = width THEN T
  ELSE [T EXCEPT !.wrap_cache =
          << [width |-> width, lines |-> wrap_ranges(T.text, 0, width)] >>]

desired_height(T, width) == IF width = 0 THEN T ELSE wrapped_lines(T, width)


\* ------------------------------------------------------------------- input.rs
\* The clipboard image paste needs a clipboard and is left out: the input
\* manager here has no attachments and no image counter.
CR == "\r"

\* str::replace: every match of `from`, leftmost first, not overlapping
RECURSIVE str_replace(_, _, _)
str_replace(s, from, to) ==
  LET Cut(i) == SubSeq(s, 1, i - 1) \o to
                \o str_replace(SubSeq(s, i + Len(from), Len(s)), from, to)
      Go(matches) == IF matches = {} THEN s ELSE Cut(FirstOf(matches))
  IN Go({i \in 1..(Len(s) - Len(from) + 1) : SubSeq(s, i, i + Len(from) - 1) = from})

\* format!("{}", n)
RECURSIVE Decimal(_)
Decimal(n) ==
  LET Digit(d) == <<"0", "1", "2", "3", "4", "5", "6", "7", "8", "9">>[d + 1]
  IN IF n < 10 THEN << Digit(n) >> ELSE Decimal(n \div 10) \o << Digit(n % 10) >>

\* str::lines().count() on text without carriage returns
LineCount(s) == Len(SourceLines(s))

NewInputManager ==
  [textarea |-> NewTextArea, pending_pastes |-> <<>>,
   large_paste_counters |-> [n \in {} |-> 0]]

\* [I, placeholder]
next_large_paste_placeholder(I, line_count) ==
  LET Counted(counter) ==
        [I |-> [I EXCEPT !.large_paste_counters =
                  [n \in DOMAIN @ \cup {line_count} |->
                     IF n = line_count THEN counter ELSE @[n]]],
         placeholder |->
           <<"[", "P", "a", "s", "t", "e", "d", " ">> \o Decimal(line_count)
           \o <<" ", "l", "i", "n", "e", "s", "]">>
           \o (IF counter = 1 THEN <<>> ELSE <<" ", "#">> \o Decimal(counter))]
  IN Counted(IF line_count \in DOMAIN I.large_paste_counters
             THEN I.large_paste_counters[line_count] + 1 ELSE 1)

handle_paste(I, pasted_in) ==
  LET Placed(r, pasted) ==
        [r.I EXCEPT !.textarea = insert_element(@, r.placeholder),
                    !.pending_pastes = Append(@, <<r.placeholder, pasted>>)]
      Paste(pasted) ==
        IF Len(pasted) > LARGE_PASTE_CHAR_THRESHOLD
        THEN Placed(next_large_paste_placeholder(I, LineCount(pasted)), pasted)
        ELSE [I EXCEPT !.textarea = insert_str(@, pasted)]
  IN Paste(str_replace(str_replace(pasted_in, <<CR, NL>>, <<NL>>), <<CR>>, <<NL>>))

RECURSIVE ExpandPastes(_, _)
ExpandPastes(result, pending_pastes) ==
  IF pending_pastes = <<>> THEN result
  ELSE ExpandPastes(str_replace(result, Head(pending_pastes)[1], Head(pending_pastes)[2]),
                    Tail(pending_pastes))

build_submit_content(I) == ExpandPastes(I.textarea.text, I.pending_pastes)

\* InputManager::clear; TextArea::clear is NewTextArea
input_clear(I) == NewInputManager

\* handle_key_event, KeyCode::Enter without modifiers: [I, result].  The
\* command processor only takes content that begins with "/".
handle_enter(I) ==
  LET Submit(content) ==
        IF content # <<>>
        THEN [I |-> input_clear(I),
              result |-> [type |-> "SendMessage", message |-> content]]
        ELSE [I |-> I, result |-> [type |-> "Continue"]]
  IN Submit(build_submit_content(I))


\* ------------------------------------------------------------ the two mutexes
\* The tasks that share the renderer and the app state, and the lock steps of
\* what they do: tokio's Mutex::lock().await waits until the mutex is free, a
\* guard going out of scope (or drop) frees it.
Mutexes == {"renderer", "app_state"}
Tasks == {"event_loop", "forwarder", "translator"}

Lock(mutex) == [op |-> "lock", mutex |-> mutex]
Unlock(mutex) == [op |-> "unlock", mutex |-> mutex]
Alone(mutex) == << Lock(mutex), Unlock(mutex) >>

\* event_loop, phase 1: the renderer, then the app state; drop(state) before
\* prepare and paint, the renderer guard to the end of the block
draw_phase == << Lock("renderer"), Lock("app_state"), Unlock("app_state"), Unlock("renderer") >>
\* phase 2
animation_delay == Alone("renderer")
\* KeyEventResult::Escape: has_error, has_info, then the branch taken; the
\* last branch reads the session and, with one, sets the info message
escape_key ==
  { Alone("renderer") \o Alone("app_state") \o Alone("renderer"),
    Alone("renderer") \o Alone("app_state") \o Alone("app_state"),
    Alone("renderer") \o Alone("app_state") \o Alone("app_state") \o Alone("app_state") }
\* SendMessage, SwitchModel and ShowCurrentModel read the state and, but for a
\* SendMessage without a session, lock it once more; ShowInfo locks it once
state_only == { Alone("app_state"), Alone("app_state") \o Alone("app_state") }
\* Fault variant of toggle_plan: the state guard is still held when the
\* renderer is locked.
toggle_plan_holding_state ==
  << Lock("app_state"), Lock("renderer"), Unlock("renderer"), Unlock("app_state") >>
\* KeyEventResult::TogglePlan: the state in a block of its own, then the renderer
toggle_plan == Alone("app_state") \o Alone("renderer")

\* TerminalUI::send_event, which the forwarder and the translator call.  Its
\* file (ui.rs) is not among the sources; this is the locking the
\* specification's concurrency section gives it: short-lived locks, one mutex
\* at a time or the app state under the renderer.
send_event ==
  { Alone("renderer"), Alone("app_state"), draw_phase }

\* what a task may begin when it holds nothing
Begins(task) ==
  IF task = "event_loop"
  THEN {draw_phase, animation_delay, toggle_plan} \cup escape_key \cup state_only
  ELSE IF task = "forwarder" THEN send_event
  ELSE send_event \cup { Alone("app_state") }

NewMutexes ==
  [holder |-> [m \in Mutexes |-> "None"], todo |-> [t \in Tasks |-> <<>>]]

\* -------------------------------------------------------------------- state
VARIABLES
  \* TranscriptState
  committed_messages,        \* Seq(LiveMessage)
  committed_rendered_count,
  active_message,            \* Option<LiveMessage>: <<>> or <<m>>
  \* TerminalRenderer
  pending_user_message,      \* "None" or the message
  overlay_active,
  deferred_history_lines,
  pending_history_lines,
  streaming_open,
  last_stream_kind,          \* "None", "Text", "Thinking"
  spinner_state,             \* "Hidden", "Loading", "RateLimit"
  last_known_width,
  current_error,             \* Option<String>: <<>> or <<message>>
  info_message,
  plan_state,                \* Option<PlanState>: <<>> or <<entries>>
  plan_expanded,
  needs_paragraph_break_after_hidden_tool,
  last_block_type_for_hidden_tool,   \* "None", "PlainText", "Thinking"
  \* StreamingController
  stream,                    \* [Kinds -> StreamState]
  policy,
  \* event loop
  input_manager,
  app_state,                 \* [info_message, current_session_id, activity_state,
                             \*  plan, plan_dirty, plan_expanded]
  cancel_flag,
  backend_event_tx,          \* the events sent to the backend, in order
  run,                       \* TerminalTuiApp::run: where it is, and its results
  mutexes,                   \* who holds Arc<Mutex<renderer>> and Arc<Mutex<AppState>>,
                             \* and the lock steps each task has still to take
  frame,                     \* "idle"; "prepared" between prepare() and the drain
  \* history of the run, read by the properties only
  produced,                  \* every history line in the order it was produced:
                             \* [line, from, msg], from = "Text" / "Thinking" (a
                             \* streamed line), "sep", "commit" or "styled", msg
                             \* the number of the message it belongs to
  segment,                   \* per kind: deltas accepted and lines emitted since the
                             \* collector was last cleared
  turn,                      \* [msg, open]: messages started so far; a stream start
                             \* happened and no stream end / user message / clear since
  used,                      \* events delivered so far, against the bounds
  last,                      \* the last operation and what it did
  watch                      \* a component called on its own (the chunking policy,
                             \* the streaming controller): its last call and the
                             \* clocks the properties need

vars == << committed_messages, committed_rendered_count, active_message,
           pending_user_message, overlay_active, deferred_history_lines,
           pending_history_lines, streaming_open, last_stream_kind, spinner_state,
           last_known_width, current_error, info_message, plan_state,
           plan_expanded, needs_paragraph_break_after_hidden_tool,
           last_block_type_for_hidden_tool, stream, policy,
           input_manager, app_state, cancel_flag, backend_event_tx, run, mutexes, frame,
           produced, segment, turn, used, last, watch >>

\* The terminal UI (the renderer, and what the event loop holds) as one value,
\* so that a handler is a composition of the methods it calls.
Cur ==
  [committed_messages |-> committed_messages,
   committed_rendered_count |-> committed_rendered_count,
   active_message |-> active_message,
   pending_user_message |-> pending_user_message,
   overlay_active |-> overlay_active,
   deferred_history_lines |-> deferred_history_lines,
   pending_history_lines |-> pending_history_lines,
   streaming_open |-> streaming_open,
   last_stream_kind |-> last_stream_kind,
   spinner_state |-> spinner_state,
   last_known_width |-> last_known_width,
   current_error |-> current_error,
   info_message |-> info_message,
   plan_state |-> plan_state,
   plan_expanded |-> plan_expanded,
   needs_paragraph_break_after_hidden_tool |-> needs_paragraph_break_after_hidden_tool,
   last_block_type_for_hidden_tool |-> last_block_type_for_hidden_tool,
   input_manager |-> input_manager,
   app_state |-> app_state,
   cancel_flag |-> cancel_flag,
   backend_event_tx |-> backend_event_tx,
   run |-> run,
   mutexes |-> mutexes,
   stream |-> stream,
   policy |-> policy,
   produced |-> produced,
   segment |-> segment,
   turn |-> turn,
   watch |-> watch]

Becomes(S) ==
  /\ committed_messages' = S.committed_messages
  /\ committed_rendered_count' = S.committed_rendered_count
  /\ active_message' = S.active_message
  /\ pending_user_message' = S.pending_user_message
  /\ overlay_active' = S.overlay_active
  /\ deferred_history_lines' = S.deferred_history_lines
  /\ pending_history_lines' = S.pending_history_lines
  /\ streaming_open' = S.streaming_open
  /\ last_stream_kind' = S.last_stream_kind
  /\ spinner_state' = S.spinner_state
  /\ last_known_width' = S.last_known_width
  /\ current_error' = S.current_error
  /\ info_message' = S.info_message
  /\ plan_state' = S.plan_state
  /\ plan_expanded' = S.plan_expanded
  /\ needs_paragraph_break_after_hidden_tool' = S.needs_paragraph_break_after_hidden_tool
  /\ last_block_type_for_hidden_tool' = S.last_block_type_for_hidden_tool
  /\ input_manager' = S.input_manager
  /\ app_state' = S.app_state
  /\ cancel_flag' = S.cancel_flag
  /\ backend_event_tx' = S.backend_event_tx
  /\ run' = S.run
  /\ mutexes' = S.mutexes
  /\ stream' = S.stream
  /\ policy' = S.policy
  /\ produced' = S.produced
  /\ segment' = S.segment
  /\ turn' = S.turn
  /\ watch' = S.watch

\* calm: ms since the first of the decide calls that, without a break, met the
\* exit condition (-1: the last call did not); since_exit: ms since a decide
\* call last took the policy from CatchUp to Smooth (-1: never, or reset
\* since); call: the last call, with the state it found.
NoWatch == [calm |-> -1, since_exit |-> -1, call |-> [op |-> "None"]]

\* src: the deltas accepted; out: the lines emitted; closed: the collector was
\* finalized; width: the wrap width at the first delta; resized: the wrap
\* width changed after the first delta
NewSegment ==
  [src |-> <<>>, out |-> <<>>, closed |-> FALSE, width |-> 0, resized |-> FALSE]

\* history bookkeeping: lines of `kind` went to the history buffers
Emitted(S, kind, lines) == [S EXCEPT !.segment[kind].out = @ \o lines]
\* history bookkeeping: the collector of `kind` was finalized
Closed(S, kind) == [S EXCEPT !.segment[kind].closed = TRUE]
\* history bookkeeping: a delta reached the collector of `kind`
Accepted(S, kind, content) ==
  IF S.segment[kind].closed \/ S.segment[kind].src = <<>>
  THEN [S EXCEPT !.segment[kind] =
          [NewSegment EXCEPT !.src = content, !.width = S.stream[kind].width]]
  ELSE [S EXCEPT !.segment[kind].src = @ \o content]

\* ---------------------------------------------------------- TranscriptState
finalize_active_if_content(S) ==
  IF S.active_message = <<>> THEN S
  ELSE LET m == [S.active_message[1] EXCEPT !.finalized = TRUE]
       IN [S EXCEPT !.active_message = <<>>,
                    !.committed_messages = IF has_content(m) THEN Append(@, m) ELSE @]

\* Fault variant of start_active_message: the active message is committed
\* whether it has content or not.
start_active_message_committing_empty(S) ==
  [S EXCEPT !.committed_messages =
              IF S.active_message = <<>> THEN @
              ELSE Append(@, [S.active_message[1] EXCEPT !.finalized = TRUE]),
            !.active_message = << [NewLiveMessage EXCEPT !.msg = S.turn.msg + 1] >>,
            !.turn.msg = @ + 1]

start_active_message(S) ==
  [finalize_active_if_content(S)
     EXCEPT !.active_message = << [NewLiveMessage EXCEPT !.msg = S.turn.msg + 1] >>,
            !.turn.msg = @ + 1]

push_committed_message(S, message) ==
  [S EXCEPT !.committed_messages = Append(@, [message EXCEPT !.finalized = TRUE])]

unrendered_committed_messages(S) ==
  SubSeq(S.committed_messages, S.committed_rendered_count + 1, Len(S.committed_messages))

\* Fault variant of mark_committed_as_rendered: the cursor stays where it is.
mark_committed_as_rendered_not_advancing(S) == S

mark_committed_as_rendered(S) ==
  [S EXCEPT !.committed_rendered_count = Len(S.committed_messages)]

transcript_clear(S) ==
  [S EXCEPT !.committed_messages = <<>>, !.committed_rendered_count = 0,
            !.active_message = <<>>]

\* ------------------------------------------------------ StreamingController
controller_clear(S) ==
  [S EXCEPT !.stream = [k \in Kinds |-> stream_state_clear(S.stream[k])],
            !.policy = policy_reset(S.policy),
            !.segment = [k \in Kinds |-> [NewSegment EXCEPT !.closed = TRUE]]]

set_width(S, width) ==
  [S EXCEPT !.stream = [k \in Kinds |-> [S.stream[k] EXCEPT !.width = width]],
            !.segment = [k \in Kinds |->
               IF S.stream[k].width # width /\ S.stream[k].buffer # <<>>
               THEN [S.segment[k] EXCEPT !.resized = TRUE] ELSE S.segment[k]]]

\* StreamingController::push
push(S, kind, content) ==
  IF content = <<>> THEN S
  ELSE LET state == push_delta([S.stream[kind] EXCEPT !.has_seen_delta = TRUE], content)
           Enqueue(newly) == IF newly.out # <<>> THEN enqueue(newly.c, newly.out)
                             ELSE newly.c
       IN Accepted([S EXCEPT !.stream[kind] =
                      IF ContainsNL(content) THEN Enqueue(commit_complete_lines(state))
                      ELSE state],
                   kind, content)

tail_text(S, kind) == current_tail(S.stream[kind])

has_seen_any_delta(S) ==
  S.stream["Text"].has_seen_delta \/ S.stream["Thinking"].has_seen_delta

\* finalize the collector of one kind and empty its queue: [S, out]
FinalizeKind(S, kind) ==
  LET Enqueue(remaining) == IF remaining.out # <<>>
                            THEN enqueue(remaining.c, remaining.out) ELSE remaining.c
      Drained(d) == [S |-> Closed([S EXCEPT !.stream[kind] = d.c], kind), out |-> d.out]
  IN Drained(drain_all(Enqueue(finalize_and_drain(S.stream[kind]))))

flush_kind(S, kind) == FinalizeKind(S, kind)

\* The mutation for C21: the queues are drained and the collectors cleared,
\* but what the collectors still hold is not rendered
flush_pending_at_queue_only(S) ==
  LET Drop(A, kind, d) ==
        [S |-> Closed([A EXCEPT !.stream[kind] = collector_clear(d.c)], kind),
         out |-> d.out]
      Both(t, k) == [S |-> [k.S EXCEPT !.policy = policy_reset(k.S.policy)],
                     text |-> t.out, thinking |-> k.out]
      Thinking(t) == Both(t, Drop(t.S, "Thinking", drain_all(t.S.stream["Thinking"])))
  IN Thinking(Drop(S, "Text", drain_all(S.stream["Text"])))

\* [S, text, thinking]
flush_pending_at(S) ==
  LET Both(t, k) == [S |-> [k.S EXCEPT !.policy = policy_reset(k.S.policy)],
                     text |-> t.out, thinking |-> k.out]
      Thinking(t) == Both(t, FinalizeKind(t.S, "Thinking"))
  IN Thinking(FinalizeKind(S, "Text"))

stream_queue_snapshot(S) ==
  [queued_lines |-> queued_len(S.stream["Text"]) + queued_len(S.stream["Thinking"]),
   oldest_age   |-> Max(oldest_queued_age(S.stream["Text"]),
                        oldest_queued_age(S.stream["Thinking"]))]

\* The mutation for C18: a Single plan takes two lines from a queue
apply_commit_tick_plan_two_lines(S, plan, n) ==
  LET max_lines == IF plan = "Single" THEN 2 ELSE Max(n, 1)
      t == drain_n(S.stream["Text"], max_lines)
      k == drain_n(S.stream["Thinking"], max_lines)
  IN [S |-> [S EXCEPT !.stream = [x \in Kinds |-> IF x = "Text" THEN t.c ELSE k.c]],
      text |-> t.out, thinking |-> k.out]

\* [S, text, thinking]
apply_commit_tick_plan(S, plan, n) ==
  LET max_lines == IF plan = "Single" THEN 1 ELSE Max(n, 1)
      t == drain_n(S.stream["Text"], max_lines)
      k == drain_n(S.stream["Thinking"], max_lines)
  IN [S |-> [S EXCEPT !.stream = [x \in Kinds |-> IF x = "Text" THEN t.c ELSE k.c]],
      text |-> t.out, thinking |-> k.out]

run_commit_tick(S) ==
  LET Decide(snapshot) == decide(S.policy, snapshot.queued_lines, snapshot.oldest_age)
      Apply(decision) ==
        apply_commit_tick_plan([S EXCEPT !.policy = decision.p], decision.plan, decision.n)
  IN Apply(Decide(stream_queue_snapshot(S)))


\* --------------------------------------------------------- TerminalRenderer
insert_or_defer_history_lines(S, lines) ==
  IF lines = <<>> THEN S
  ELSE IF S.overlay_active
       THEN [S EXCEPT !.deferred_history_lines = @ \o lines]
       ELSE [S EXCEPT !.pending_history_lines = @ \o lines]

\* A call of insert_or_defer_history_lines with newly produced lines, which
\* the history of the run records with where they come from.
Tag(lines, from, msg) ==
  [i \in 1..Len(lines) |-> [line |-> lines[i], from |-> from, msg |-> msg]]
LinesOf(entries) == [i \in 1..Len(entries) |-> entries[i].line]
ActiveMsg(S) == IF S.active_message = <<>> THEN 0 ELSE S.active_message[1].msg

Produce(S, lines, from) ==
  insert_or_defer_history_lines(
    [S EXCEPT !.produced = @ \o Tag(lines, from, ActiveMsg(S))], lines)

\* history bookkeeping: text or thinking of the active message is in the history
StreamedOf(S) ==
  \E i \in 1..Len(S.produced) :
    S.produced[i].from \in Kinds /\ S.produced[i].msg = ActiveMsg(S)

MarkStreamed(S) ==
  IF S.active_message = <<>> THEN S
  ELSE [S EXCEPT !.active_message[1].streamed_to_scrollback = TRUE]

ensure_active_message(S) ==
  IF S.active_message = <<>> THEN start_active_message(S) ELSE S

hide_loading_spinner_if_active(S) ==
  IF S.spinner_state = "Loading" THEN [S EXCEPT !.spinner_state = "Hidden"] ELSE S

mark_hidden_tool_completed(S) ==
  [S EXCEPT !.needs_paragraph_break_after_hidden_tool = TRUE]

\* type: "PlainText" or "Thinking", the block handed in being an empty one
ensure_last_block_type(S, type) ==
  LET Broken(A) ==
        IF A.needs_paragraph_break_after_hidden_tool
        THEN [A EXCEPT !.needs_paragraph_break_after_hidden_tool = FALSE,
                       !.active_message[1].blocks =
                          IF A.last_block_type_for_hidden_tool = type /\ @ # <<>>
                             /\ @[Len(@)].type \in {"PlainText", "Thinking"}
                          THEN [@ EXCEPT ![Len(@)].content = @ \o << NL, NL >>]
                          ELSE @]
        ELSE A
      Added(A) ==
        IF A.active_message[1].blocks = <<>>
           \/ A.active_message[1].blocks[Len(A.active_message[1].blocks)].type # type
        THEN [A EXCEPT !.active_message[1] = add_block(@, TextBlock(type, <<>>))]
        ELSE A
  IN Added([Broken(ensure_active_message(S))
              EXCEPT !.last_block_type_for_hidden_tool = type])

append_to_live_block(S, text) ==
  LET Appended(A) ==
        IF A.active_message[1].blocks # <<>>
           /\ A.active_message[1].blocks[Len(A.active_message[1].blocks)].type # "ToolUse"
        THEN [A EXCEPT !.active_message[1].blocks[Len(A.active_message[1].blocks)].content =
                          @ \o text]
        ELSE A
  IN Appended(ensure_active_message(hide_loading_spinner_if_active(S)))

\* Fault variant of apply_drained_lines: the drained lines go to the history
\* but the active message is not marked streamed_to_scrollback.
apply_drained_lines_unmarked(S, text, thinking) ==
  LET Text(A) == IF text = <<>> THEN A
                 ELSE Emitted(Produce(A, indent_lines(text), "Text"), "Text", text)
      Thinking(A) ==
        IF thinking = <<>> THEN A
        ELSE Emitted(Produce(A, indent_lines(style_thinking_lines(thinking)), "Thinking"),
                     "Thinking", thinking)
  IN Thinking(Text(S))

apply_drained_lines(S, text, thinking) ==
  LET has_lines == text # <<>> \/ thinking # <<>>
      Text(A) == IF text = <<>> THEN A
                 ELSE Emitted(Produce(A, indent_lines(text), "Text"), "Text", text)
      Thinking(A) ==
        IF thinking = <<>> THEN A
        ELSE Emitted(Produce(A, indent_lines(style_thinking_lines(thinking)), "Thinking"),
                     "Thinking", thinking)
      Mark(A) == IF S.streaming_open /\ has_lines THEN MarkStreamed(A) ELSE A
  IN Mark(Thinking(Text(S)))

RECURSIVE RetainNonStream(_)
RetainNonStream(blocks) ==
  IF blocks = <<>> THEN <<>>
  ELSE (IF stream_kind_for_block(Head(blocks)) = "None" THEN << Head(blocks) >> ELSE <<>>)
       \o RetainNonStream(Tail(blocks))

sync_live_stream_tails(S) ==
  LET text_tail     == tail_text(S, "Text")
      thinking_tail == tail_text(S, "Thinking")
      Merge(A, stream_blocks) ==
        IF stream_blocks = <<>> THEN A
        ELSE [A EXCEPT !.active_message[1].blocks =
                 merge_blocks_preserving_stream_slots(@, stream_blocks)]
      Build(A) ==
        Merge(A, build_stream_blocks_for_live_message(
                   A.active_message[1].blocks, text_tail, thinking_tail,
                   A.last_stream_kind))
  IN IF text_tail = <<>> /\ thinking_tail = <<>>
     THEN IF has_seen_any_delta(S) /\ S.active_message # <<>>
          THEN [S EXCEPT !.active_message[1].blocks = RetainNonStream(@)]
          ELSE S
     ELSE Build(ensure_active_message(S))

\* The drained lines of a controller call (d = [S, text, thinking]) go to the
\* history buffers and the live tails are brought up to date.
DrainAndSync(d) == sync_live_stream_tails(apply_drained_lines(d.S, d.text, d.thinking))

flush_streaming_pending(S) ==
  [DrainAndSync(flush_pending_at(S)) EXCEPT !.streaming_open = FALSE]

start_new_message(S) ==
  LET Restart(A) ==
        start_active_message(
          [controller_clear([A EXCEPT !.spinner_state = "Loading"])
             EXCEPT !.last_stream_kind = "None"])
  IN [Restart(DrainAndSync(flush_pending_at(S)))
        EXCEPT !.streaming_open = TRUE, !.turn.open = TRUE]

start_tool_use_block(S, name, id) ==
  LET Flush(A) ==
        IF A.last_stream_kind # "None"
        THEN [MarkStreamed(Produce(flush_streaming_pending(A), <<BlankLine>>, "sep"))
                EXCEPT !.last_stream_kind = "None"]
        ELSE A
      Add(A) ==
        [A EXCEPT !.active_message[1] =
           add_block(@, [ToolUseBlock(name, id) EXCEPT !.lead = StreamedOf(A)])]
  IN Add(ensure_active_message(Flush(hide_loading_spinner_if_active(S))))

\* The three tool updates share their shape: without an active message, or
\* without a tool block of that id in it, nothing happens; otherwise the first
\* block of that id is changed.
FirstToolBlock(m, tool_id) ==
  CHOOSE i \in get_tool_block(m, tool_id) : \A j \in get_tool_block(m, tool_id) : i <= j

add_or_update_tool_parameter(S, tool_id, name, value) ==
  IF S.active_message = <<>> THEN S
  ELSE IF get_tool_block(S.active_message[1], tool_id) = {} THEN S
  ELSE [S EXCEPT !.active_message[1].blocks[FirstToolBlock(S.active_message[1], tool_id)] =
          add_or_update_parameter(@, name, value)]

\* The mutation for C11: a status update for an unknown tool id opens a block
update_tool_status_creating(S, tool_id, status, message, output) ==
  LET Set(tool) == [tool EXCEPT !.status = status, !.status_message = message,
                                !.output = output]
  IN IF S.active_message = <<>> THEN S
     ELSE IF get_tool_block(S.active_message[1], tool_id) = {}
     THEN [S EXCEPT !.active_message[1] =
             add_block(@, Set(ToolUseBlock("", tool_id)))]
     ELSE [S EXCEPT !.active_message[1].blocks[FirstToolBlock(S.active_message[1], tool_id)] =
             Set(@)]

update_tool_status(S, tool_id, status, message, output) ==
  IF S.active_message = <<>> THEN S
  ELSE IF get_tool_block(S.active_message[1], tool_id) = {} THEN S
  ELSE [S EXCEPT !.active_message[1].blocks[FirstToolBlock(S.active_message[1], tool_id)] =
          [@ EXCEPT !.status = status, !.status_message = message,
                    !.output = output]]

append_tool_output(S, tool_id, chunk) ==
  IF S.active_message = <<>> THEN S
  ELSE IF get_tool_block(S.active_message[1], tool_id) = {} THEN S
  ELSE [S EXCEPT !.active_message[1].blocks[FirstToolBlock(S.active_message[1], tool_id)].output =
          IF @ = <<>> THEN <<chunk>> ELSE <<@[1] \o chunk>>]

\* The shared body of queue_text_delta / queue_thinking_delta once the delta
\* is let in: flush the departing kind on a kind switch, then push.
SwitchAndPush(S, kind, content) ==
  LET Styled(lines) == IF Other(kind) = "Thinking"
                       THEN indent_lines(style_thinking_lines(lines))
                       ELSE indent_lines(lines)
      Flushed(f) ==
        IF f.out # <<>>
        THEN MarkStreamed(
               Produce(Emitted(Produce(f.S, Styled(f.out), Other(kind)),
                               Other(kind), f.out),
                       <<BlankLine>>, "sep"))
        ELSE f.S
      Switched(A) == push([A EXCEPT !.last_stream_kind = kind], kind, content)
  IN Switched(IF S.last_stream_kind = Other(kind)
              THEN Flushed(flush_kind(S, Other(kind))) ELSE S)

\* "accepted", "recovered" (synthetic stream start) or "dropped"
DeltaOutcome(S) ==
  IF S.streaming_open THEN "accepted"
  ELSE IF S.active_message = <<>> THEN "recovered" ELSE "dropped"

\* Fault variant of queue_delta: a delta that arrives while streaming is closed
\* and a message is active is let in.
queue_delta_late_accepted(S, kind, content) ==
  IF DeltaOutcome(S) = "recovered"
  THEN SwitchAndPush(start_new_message(S), kind, content)
  ELSE SwitchAndPush(S, kind, content)

\* Fault variant of queue_delta: a delta that arrives before any stream start
\* is discarded instead of starting a message.
queue_delta_early_dropped(S, kind, content) ==
  IF DeltaOutcome(S) = "accepted" THEN SwitchAndPush(S, kind, content) ELSE S

queue_delta(S, kind, content) ==
  CASE DeltaOutcome(S) = "accepted"  -> SwitchAndPush(S, kind, content)
    [] DeltaOutcome(S) = "recovered" -> SwitchAndPush(start_new_message(S), kind, content)
    [] OTHER                         -> S

queue_text_delta(S, content)     == queue_delta(S, "Text", content)
queue_thinking_delta(S, content) == queue_delta(S, "Thinking", content)

\* The loop of flush_new_finalized_messages; every line carries the number of
\* the message it renders.
RECURSIVE FinalizedLines(_, _, _)
FinalizedLines(unrendered, width, lines) ==
  IF unrendered = <<>> THEN lines
  ELSE LET message == Head(unrendered)
           Tools(tool_lines) ==
             IF tool_lines # <<>>
             THEN lines \o Tag(tool_lines \o <<BlankLine>>, "commit", message.msg)
             ELSE lines
       IN IF message.streamed_to_scrollback
          THEN FinalizedLines(Tail(unrendered), width,
                 Tools(as_history_lines_non_streamed_only(message, width)))
          ELSE FinalizedLines(Tail(unrendered), width,
                 (IF lines # <<>>
                  THEN lines \o Tag(<<BlankLine>>, "commit", message.msg) ELSE lines)
                 \o Tag(as_history_lines(message, width), "commit", message.msg))

flush_new_finalized_messages(S, width) ==
  LET Insert(lines) ==
        mark_committed_as_rendered(
          insert_or_defer_history_lines([S EXCEPT !.produced = @ \o lines],
                                        LinesOf(lines)))
      Render(unrendered) ==
        IF unrendered = <<>> THEN S
        ELSE Insert(FinalizedLines(unrendered, width, <<>>))
  IN Render(unrendered_committed_messages(S))

\* Fault variant of flush_deferred_history_lines: the deferred lines are
\* discarded instead of being moved.
flush_deferred_history_lines_discarding(S) ==
  [S EXCEPT !.deferred_history_lines = <<>>]

flush_deferred_history_lines(S) ==
  IF S.deferred_history_lines = <<>> THEN S
  ELSE insert_or_defer_history_lines(
         [S EXCEPT !.deferred_history_lines = <<>>], S.deferred_history_lines)

apply_streaming_commit_tick(S) == DrainAndSync(run_commit_tick(S))

prepare(S, width) ==
  LET stream_width == Max(IF width >= 2 THEN width - 2 ELSE 0, 1)
      Deferred(A) == IF ~A.overlay_active THEN flush_deferred_history_lines(A) ELSE A
  IN flush_new_finalized_messages(
       Deferred(apply_streaming_commit_tick(
                  set_width([S EXCEPT !.last_known_width = width], stream_width))),
       width)

\* Fault variant of add_user_message: the active stream is not flushed before
\* the user message is appended.
add_user_message_without_flush(S, content) ==
  LET user_message == [add_block(NewLiveMessage, TextBlock("UserText", content))
                         EXCEPT !.finalized = TRUE]
      Finalize(A) ==
        [controller_clear(finalize_active_if_content(A)) EXCEPT !.last_stream_kind = "None"]
      Render(A) == flush_new_finalized_messages(A, A.last_known_width)
  IN [push_committed_message(Render(Finalize(S)), user_message)
        EXCEPT !.pending_user_message = "None"]

add_user_message(S, content) ==
  LET user_message == [add_block(NewLiveMessage, TextBlock("UserText", content))
                         EXCEPT !.finalized = TRUE]
      Finalize(A) ==
        [controller_clear(finalize_active_if_content(A)) EXCEPT !.last_stream_kind = "None"]
      Render(A) == flush_new_finalized_messages(A, A.last_known_width)
  IN [push_committed_message(Render(Finalize(flush_streaming_pending(S))), user_message)
        EXCEPT !.pending_user_message = "None"]

add_instruction_message(S, content) ==
  push_committed_message(
    S, [add_block(NewLiveMessage, TextBlock("PlainText", content))
          EXCEPT !.finalized = TRUE])

add_styled_history_lines(S, lines) ==
  [S EXCEPT !.pending_history_lines = @ \o lines,
            !.produced = @ \o Tag(lines, "styled", 0)]

clear_all_messages(S) ==
  [controller_clear(transcript_clear(S))
     EXCEPT !.streaming_open = FALSE, !.last_stream_kind = "None",
            !.deferred_history_lines = <<>>, !.pending_history_lines = <<>>,
            !.spinner_state = "Hidden"]

\* Fault variant of needs_animation_timer: an open stream does not count.
needs_animation_timer_spinner_only(S) == S.spinner_state # "Hidden"

needs_animation_timer(S) == S.spinner_state # "Hidden" \/ S.streaming_open

\* Instants only ever enter the code through elapsed times: the age of a queued
\* line and the time since a policy timer was set.  Past the largest threshold
\* they are compared with, larger values change nothing.
elapse(S, d) ==
  LET older(t, cap) == IF t = -1 THEN -1 ELSE Min(t + d, cap)
  IN [S EXCEPT
        !.stream = [k \in Kinds |->
           [S.stream[k] EXCEPT !.queued_lines =
              [i \in 1..Len(@) |-> [@[i] EXCEPT !.age = older(@, SEVERE_OLDEST_AGE)]]]],
        !.policy = [S.policy EXCEPT
           !.below_exit_threshold_since = older(@, EXIT_HOLD),
           !.last_catch_up_exit_at = older(@, REENTER_CATCH_UP_HOLD)]]

\* ------------------------------------------------------------------- system
Init ==
  /\ committed_messages = <<>>
  /\ committed_rendered_count = 0
  /\ active_message = <<>>
  /\ pending_user_message = "None"
  /\ overlay_active = FALSE
  /\ deferred_history_lines = <<>>
  /\ pending_history_lines = <<>>
  /\ streaming_open = FALSE
  /\ last_stream_kind = "None"
  /\ spinner_state = "Hidden"
  /\ last_known_width = InitialWidth
  /\ current_error = <<>>
  /\ info_message = <<>>
  /\ plan_state = <<>>
  /\ plan_expanded = FALSE
  /\ needs_paragraph_break_after_hidden_tool = FALSE
  /\ last_block_type_for_hidden_tool = "None"
  /\ input_manager = NewInputManager
  /\ app_state = [info_message |-> <<>>, current_session_id |-> <<>>,
                  activity_state |-> <<>>, plan |-> <<>>, plan_dirty |-> FALSE,
                  plan_expanded |-> FALSE]
  /\ cancel_flag = FALSE
  /\ backend_event_tx = <<>>
  /\ run = [pc |-> "loop", loop_result |-> "None", cleanup_result |-> "None",
            backend_task |-> "running", returned |-> "None"]
  /\ mutexes = NewMutexes
  /\ stream = [k \in Kinds |-> NewStreamState]
  /\ policy = NewPolicy
  /\ frame = "idle"
  /\ produced = <<>>
  /\ segment = [k \in Kinds |-> NewSegment]
  /\ turn = [msg |-> 0, open |-> FALSE]
  /\ used = [events |-> 0, quiet |-> TRUE]
  /\ last = [op |-> "new", kind |-> "None", outcome |-> "None"]
  /\ watch = NoWatch

\* the bounds of a run
MayDeliver == used.events < (IF used.quiet THEN MaxQuietEvents ELSE MaxEvents)
MayDisturb == used.events <= MaxEvents

Did(op, kind, outcome) == last' = [op |-> op, kind |-> kind, outcome |-> outcome]

\* UiEvent::StreamingStarted
StartNewMessage ==
  /\ frame = "idle" /\ MayDeliver
  /\ Becomes(start_new_message(Cur))
  /\ used' = [used EXCEPT !.events = @ + 1]
  /\ Did("StartNewMessage", "None", "None")
  /\ UNCHANGED frame

QueueTextDelta(content) ==
  /\ frame = "idle" /\ MayDeliver
  /\ Becomes(queue_text_delta(Cur, content))
  /\ used' = [used EXCEPT !.events = @ + 1]
  /\ Did("Delta", "Text", DeltaOutcome(Cur))
  /\ UNCHANGED frame

QueueThinkingDelta(content) ==
  /\ frame = "idle" /\ MayDeliver
  /\ Becomes(queue_thinking_delta(Cur, content))
  /\ used' = [used EXCEPT !.events = @ + 1]
  /\ Did("Delta", "Thinking", DeltaOutcome(Cur))
  /\ UNCHANGED frame

\* Tool ids are unique: the next tool gets the first id not yet in use.
ToolsOf(m) == {m.blocks[i].id : i \in {j \in 1..Len(m.blocks) : m.blocks[j].type = "ToolUse"}}
NextToolId(S) ==
  LET inUse == UNION ({ToolsOf(S.committed_messages[i]) : i \in 1..Len(S.committed_messages)}
                      \cup {ToolsOf(S.active_message[i]) : i \in 1..Len(S.active_message)})
  IN ToolIds[Cardinality(inUse) + 1]

\* UiEvent::StartTool
StartTool ==
  /\ frame = "idle" /\ MayDeliver
  /\ Becomes(start_tool_use_block(Cur, ToolName, NextToolId(Cur)))
  /\ used' = [used EXCEPT !.events = @ + 1]
  /\ Did("StartTool", "None",
         IF last_stream_kind # "None" THEN "flushed" ELSE "None")
  /\ UNCHANGED frame

\* UiEvent::StreamingStopped
FlushStreamingPending ==
  /\ frame = "idle" /\ MayDeliver
  /\ Becomes([flush_streaming_pending(Cur) EXCEPT !.turn.open = FALSE])
  /\ used' = [used EXCEPT !.events = @ + 1]
  /\ Did("FlushStreamingPending", "None", "None")
  /\ UNCHANGED frame

AddUserMessage(content) ==
  /\ frame = "idle" /\ MayDeliver
  /\ Becomes([add_user_message(Cur, content) EXCEPT !.turn.open = FALSE])
  /\ used' = [used EXCEPT !.events = @ + 1]
  /\ Did("AddUserMessage", "None",
         IF active_message # <<>> /\ has_content(active_message[1])
         THEN "with-active" ELSE "None")
  /\ UNCHANGED frame

AddInstructionMessage(content) ==
  /\ frame = "idle" /\ MayDeliver
  /\ Becomes(add_instruction_message(Cur, content))
  /\ used' = [used EXCEPT !.events = @ + 1]
  /\ Did("AddInstructionMessage", "None", "None")
  /\ UNCHANGED frame

AddStyledHistoryLines ==
  /\ frame = "idle" /\ MayDeliver
  /\ Becomes(add_styled_history_lines(Cur, StyledLines))
  /\ used' = [used EXCEPT !.events = @ + 1]
  /\ Did("AddStyledHistoryLines", "None", "None")
  /\ UNCHANGED frame

SetPendingUserMessage ==
  /\ frame = "idle" /\ MayDeliver
  /\ Becomes([Cur EXCEPT !.pending_user_message = "Some"])
  /\ used' = [used EXCEPT !.events = @ + 1]
  /\ Did("SetPendingUserMessage", "None", "None")
  /\ UNCHANGED frame

ClearAllMessages ==
  /\ frame = "idle" /\ MayDeliver
  /\ Becomes([clear_all_messages(Cur) EXCEPT !.turn.open = FALSE])
  /\ used' = [used EXCEPT !.events = @ + 1]
  /\ Did("ClearAllMessages", "None", "None")
  /\ UNCHANGED frame

\* The draw phase of the event loop holds the renderer lock over its calls:
\* the sync from the application state, prepare, drain_pending_history_lines.
sync_from_state(S, is_overlay_active) ==
  [S EXCEPT !.info_message = S.app_state.info_message,
            !.plan_state = IF S.app_state.plan_dirty THEN S.app_state.plan ELSE @,
            !.app_state.plan_dirty = FALSE,
            !.plan_expanded = S.app_state.plan_expanded,
            !.overlay_active = is_overlay_active]

SetOverlayActive(active) ==
  LET opens == active /\ ~overlay_active IN
  /\ frame = "idle"
  /\ opens => MayDisturb
  /\ Becomes(sync_from_state(Cur, active))
  /\ frame' = "synced"
  /\ used' = [used EXCEPT !.quiet = @ /\ ~opens]
  /\ Did("SetOverlayActive", "None", "None")

\* what the commit tick of a prepare finds: a line of the severe age or not
TickKind(S) ==
  IF stream_queue_snapshot(S).oldest_age >= SEVERE_OLDEST_AGE THEN "Severe" ELSE "None"

\* the terminal has StartWidth columns until it is resized
Prepare(width) ==
  LET resizes == width # (IF stream["Text"].width = 0 THEN StartWidth
                         ELSE last_known_width) IN
  /\ frame = "synced"
  /\ resizes => MayDisturb
  /\ Becomes(prepare(Cur, width))
  /\ frame' = "prepared"
  /\ used' = [used EXCEPT !.quiet = @ /\ ~resizes]
  /\ Did("Prepare", TickKind(Cur),
         IF ~overlay_active /\ deferred_history_lines # <<>>
         THEN "flushed-deferred" ELSE "None")

DrainPending ==
  /\ frame = "prepared"
  /\ Becomes([Cur EXCEPT !.pending_history_lines = <<>>])
  /\ frame' = "idle"
  /\ Did("DrainPending", "None", "None")
  /\ UNCHANGED used

\* Time passes between two events.
Elapse(d) ==
  /\ frame = "idle" /\ MayDisturb
  /\ elapse(Cur, d) # Cur
  /\ Becomes(elapse(Cur, d))
  /\ used' = [used EXCEPT !.quiet = FALSE]
  /\ Did("Elapse", "None", "None")
  /\ UNCHANGED frame

Next ==
  \/ StartNewMessage
  \/ \E content \in Deltas : QueueTextDelta(content)
  \/ \E content \in Deltas : QueueThinkingDelta(content)
  \/ StartTool
  \/ FlushStreamingPending
  \/ \E content \in Contents : AddUserMessage(content)
  \/ \E content \in Contents : AddInstructionMessage(content)
  \/ AddStyledHistoryLines
  \/ SetPendingUserMessage
  \/ ClearAllMessages
  \/ \E active \in BOOLEAN : SetOverlayActive(active)
  \/ \E width \in Widths : Prepare(width)
  \/ DrainPending
  \/ \E d \in ElapseMs : Elapse(d)

Spec == Init /\ [][Next]_vars

\* ----------------------------------------------------------- the tool events
\* The renderer under the events that build and change tool blocks, with tool
\* ids as they arrive (nothing in the renderer rules out a repeated id) and
\* with message contents that may be empty or whitespace only.
NoSuchTool(tool_id) ==
  \/ active_message = <<>>
  \/ get_tool_block(active_message[1], tool_id) = {}

\* UiEvent::StartTool
StartToolWith(tool_id) ==
  /\ frame = "idle" /\ MayDeliver
  /\ Becomes(start_tool_use_block(Cur, ToolName, tool_id))
  /\ used' = [used EXCEPT !.events = @ + 1]
  /\ Did("StartTool", tool_id, "None")
  /\ UNCHANGED frame

\* UiEvent::UpdateToolParameter
AddOrUpdateToolParameter(tool_id, name, value) ==
  /\ frame = "idle" /\ MayDeliver
  /\ Becomes(add_or_update_tool_parameter(Cur, tool_id, name, value))
  /\ used' = [used EXCEPT !.events = @ + 1]
  /\ Did("AddOrUpdateToolParameter", tool_id, "None")
  /\ UNCHANGED frame

\* UiEvent::UpdateToolStatus
UpdateToolStatus(tool_id, status) ==
  /\ frame = "idle" /\ MayDeliver
  /\ Becomes(update_tool_status(Cur, tool_id, status,
                                IF status = "Error" THEN << <<"e">> >> ELSE <<>>,
                                <<>>))
  /\ used' = [used EXCEPT !.events = @ + 1]
  /\ Did("UpdateToolStatus", tool_id, "None")
  /\ UNCHANGED frame

\* UiEvent::AppendToolOutput
AppendToolOutput(tool_id, chunk) ==
  /\ frame = "idle" /\ MayDeliver
  /\ Becomes(append_tool_output(Cur, tool_id, chunk))
  /\ used' = [used EXCEPT !.events = @ + 1]
  /\ Did("AppendToolOutput", tool_id, "None")
  /\ UNCHANGED frame

ToolNext ==
  \/ StartNewMessage
  \/ QueueTextDelta(<<"a", NL>>)
  \/ \E tool_id \in SomeToolIds : StartToolWith(tool_id)
  \/ \E tool_id \in SomeToolIds : AddOrUpdateToolParameter(tool_id, "p", <<"v">>)
  \/ \E tool_id \in SomeToolIds : \E status \in ToolStatuses :
       UpdateToolStatus(tool_id, status)
  \/ \E tool_id \in SomeToolIds : AppendToolOutput(tool_id, <<"o", NL>>)
  \/ \E content \in EdgeContents : AddUserMessage(content)
  \/ \E content \in EdgeContents : AddInstructionMessage(content)
  \/ SetOverlayActive(FALSE)
  \/ Prepare(StartWidth)
  \/ DrainPending

ToolSpec == Init /\ [][ToolNext]_vars

\* ------------------------------------------------- the chunking policy alone
\* AdaptiveChunkingPolicy::decide on snapshots as stream_queue_snapshot builds
\* them (an age exactly when there are lines), with time passing between the
\* calls.
MeetsExit(q, age) == q <= 2 /\ age # -1 /\ age <= 40

PolicyDecide(q, age) ==
  LET Watch(d) ==
        [calm |-> IF MeetsExit(q, age)
                  THEN (IF watch.calm = -1 THEN 0 ELSE watch.calm) ELSE -1,
         since_exit |-> IF policy.mode = "CatchUp" /\ d.p.mode = "Smooth"
                        THEN 0 ELSE watch.since_exit,
         call |-> [op |-> "decide", q |-> q, age |-> age, before |-> policy,
                   calm |-> watch.calm, since_exit |-> watch.since_exit,
                   mode |-> d.mode, entered_catch_up |-> d.entered_catch_up,
                   plan |-> d.plan, n |-> d.n]]
      Call(d) == Becomes([Cur EXCEPT !.policy = d.p, !.watch = Watch(d)])
  IN /\ Call(decide(policy, q, age))
     /\ Did("decide", "None", "None")
     /\ UNCHANGED <<frame, used>>

\* `now` is later at the next call
PolicyAdvance(d) ==
  LET older(t, cap) == IF t = -1 THEN -1 ELSE Min(t + d, cap) IN
  /\ Becomes([elapse(Cur, d) EXCEPT
               !.watch = [calm |-> older(watch.calm, EXIT_HOLD),
                          since_exit |-> older(watch.since_exit, REENTER_CATCH_UP_HOLD),
                          call |-> [op |-> "advance"]]])
  /\ Did("advance", "None", "None")
  /\ UNCHANGED <<frame, used>>

PolicyReset ==
  /\ Becomes([Cur EXCEPT !.policy = policy_reset(policy),
                         !.watch = [NoWatch EXCEPT !.call = [op |-> "reset"]]])
  /\ Did("reset", "None", "None")
  /\ UNCHANGED <<frame, used>>

PolicyNext ==
  \/ \E q \in PolicyQueued \ {0} : \E age \in PolicyAges : PolicyDecide(q, age)
  \/ PolicyDecide(0, -1)
  \/ \E d \in PolicySteps : PolicyAdvance(d)
  \/ PolicyReset

PolicySpec == Init /\ [][PolicyNext]_vars

\* ------------------------------------------------------------ the status area
\* renderer.rs paint: what the status area above the input shows.  A status
\* text is a sequence of words, NL being a line break inside it; an info or a
\* pending message is one unbroken word.
PREFIX_COLS == 2
max_input_rows == 5

RECURSIVE RowWidth(_)
RowWidth(row) ==
  IF row = <<>> THEN 0
  ELSE Len(Head(row)) + (IF Len(row) > 1 THEN 1 ELSE 0) + RowWidth(Tail(row))

\* ratatui Paragraph with Wrap { trim: false }: a word stays on the row when
\* it fits after one space and starts the next row otherwise (no word of the
\* texts here is wider than the area)
RECURSIVE WrapWords(_, _, _, _)
WrapWords(words, width, rows, row) ==
  IF words = <<>> THEN (IF row = <<>> THEN rows ELSE Append(rows, row))
  ELSE IF Head(words) = NL THEN WrapWords(Tail(words), width, Append(rows, row), <<>>)
  ELSE IF row = <<>> \/ RowWidth(row) + 1 + Len(Head(words)) <= width
  THEN WrapWords(Tail(words), width, rows, Append(row, Head(words)))
  ELSE WrapWords(Tail(words), width, Append(rows, row), << Head(words) >>)

measure_markdown_height(content, width, max_height) ==
  IF content = <<>> \/ width = 0 \/ max_height = 0 THEN 0
  ELSE Min(Len(WrapWords(content, width, <<>>, <<>>)), max_height)

\* a Paragraph rendered into an area of `height` rows: the rows below are cut
render_paragraph(content, width, height) ==
  SubSeq(WrapWords(content, width, <<>>, <<>>), 1,
         Min(height, Len(WrapWords(content, width, <<>>, <<>>))))

format_error_message(message) ==
  << "Error:" >> \o message \o << "(Press", "Esc", "to", "dismiss)" >>

\* the first entry left to show when leading completed entries are skipped
RECURSIVE PlanStart(_, _)
PlanStart(entries, start) ==
  IF start < Len(entries) /\ entries[start + 1].status = "Completed"
     /\ Len(entries) - start > 4
  THEN PlanStart(entries, start + 1) ELSE start

PlanMarker(status) ==
  IF status = "Pending" THEN "[ ]" ELSE IF status = "InProgress" THEN "[~]" ELSE "[x]"

RECURSIVE PlanRows(_)
PlanRows(visible) ==
  IF visible = <<>> THEN <<>>
  ELSE << NL, PlanMarker(Head(visible).status), Head(visible).content >>
       \o PlanRows(Tail(visible))

build_plan_text(S) ==
  IF S.plan_state = <<>> \/ S.plan_state[1] = <<>> THEN <<>>
  ELSE LET entries == S.plan_state[1]
           total == Len(entries)
           Expanded(start) ==
             << << "Plan" >>
                \o (IF total > Min(start + 4, total) - start
                    THEN << "(+" \o ToString(total - (Min(start + 4, total) - start)),
                            "hidden)" >>
                    ELSE <<>>)
                \o PlanRows(SubSeq(entries, start + 1, Min(start + 4, total))) >>
           Open == { i \in 1..total : entries[i].status # "Completed" }
           Collapsed(index) ==
             << << "Plan:", entries[index].content, "(" \o ToString(index), "of",
                   ToString(total) \o ")" >> >>
       IN IF S.plan_expanded
          THEN Expanded(IF total > 4 THEN PlanStart(entries, 0) ELSE 0)
          ELSE IF Open # {}
          THEN Collapsed(CHOOSE i \in Open : \A j \in Open : i <= j)
          ELSE << << "Plan:", "All", "tasks", "completed",
                     "(" \o ToString(total), "items)" >> >>

\* the plan, then the info message or else the pending user message
status_entries(S) ==
  (IF build_plan_text(S) # <<>>
   THEN << [kind |-> "Plan", content |-> build_plan_text(S)[1]] >> ELSE <<>>)
  \o (IF S.info_message # <<>>
      THEN << [kind |-> "Info", content |-> << S.info_message[1] >>] >>
      ELSE IF S.pending_user_message # "None"
      THEN << [kind |-> "Pending", content |-> << S.pending_user_message >>] >>
      ELSE <<>>)

calculate_input_height(T, width) ==
  LET lines == IF Max(width - (PREFIX_COLS + 1), 0) = 0 THEN 1
               ELSE Len(wrapped_lines(T, Max(width - (PREFIX_COLS + 1), 0)).wrap_cache[1].lines)
  IN Max(4, Min(lines + 3, max_input_rows + 3))

measure_status_height(S, width) ==
  LET Gap(height) == IF height > 0 THEN height + 1 ELSE 0
      RECURSIVE Entries(_)
      Entries(entries) ==
        IF entries = <<>> THEN 0
        ELSE measure_markdown_height(Head(entries).content, width, 20)
             + (IF Len(entries) > 1 THEN 1 ELSE 0) + Entries(Tail(entries))
  IN IF S.current_error # <<>>
     THEN Gap(measure_markdown_height(format_error_message(S.current_error[1]), width, 20))
     ELSE IF status_entries(S) = <<>> THEN 0 ELSE Entries(status_entries(S)) + 1

\* without the rows of the live message and of the spinner, which only add
\* to the content rows
desired_viewport_height(S, width) ==
  Max(measure_status_height(S, width), 1)
  + calculate_input_height(S.input_manager.textarea, width)

\* The status area as painted, top row first: [kind, rows].  The error is
\* measured as format_error_message gives it, and render_error_message
\* formats what it is handed once more before rendering it into the area.
RECURSIVE PaintEntries(_, _, _)
PaintEntries(entries, width, cursor_y) ==
  IF entries = <<>> \/ cursor_y = 0 THEN <<>>
  ELSE LET Placed(actual_height) ==
             << [kind |-> Head(entries).kind,
                 rows |-> render_paragraph(Head(entries).content, width, actual_height)] >>
             \o PaintEntries(Tail(entries), width,
                             Max(cursor_y - actual_height
                                 - (IF actual_height > 0 /\ Len(entries) > 1 THEN 1 ELSE 0), 0))
       IN Placed(Min(measure_markdown_height(Head(entries).content, width,
                                             Max(cursor_y, 1)), cursor_y))

\* the frame's height is desired_viewport_height, and the layout gives the
\* status area its status_height rows of what the input leaves
paint_status(S, width, height) ==
  LET headroom == 200
      available == Max(height - calculate_input_height(S.input_manager.textarea, width), 0)
      cursor_y == available + headroom - 1
      Error(formatted) ==
        LET ErrorArea(actual_height) ==
              IF actual_height = 0 THEN <<>>
              ELSE << [kind |-> "Error",
                       rows |-> render_paragraph(format_error_message(formatted), width,
                                  Min(actual_height
                                      + (IF cursor_y - actual_height > 0 THEN 1 ELSE 0),
                                      available))] >>
        IN ErrorArea(Min(measure_markdown_height(formatted, width, Max(cursor_y, 1)),
                         cursor_y))
  IN IF S.current_error # <<>> THEN Error(format_error_message(S.current_error[1]))
     ELSE SelectSeq(PaintEntries(status_entries(S), width, cursor_y),
                    LAMBDA e : e.rows # <<>>)

\* ------------------------------------------------------------ the event loop
\* app.rs event_loop: the key and paste events of the terminal, with the
\* renderer's error and the session's state changing between them.  Every
\* handler runs under the locks it takes, as one step.
MayKey == used.events < MaxAppEvents /\ run.pc = "loop"

set_error(S, error_message) == [S EXCEPT !.current_error = << error_message >>]
clear_error(S) == [S EXCEPT !.current_error = <<>>]
has_error(S) == S.current_error # <<>>

handle_escape_clearing_both(S) ==
  IF has_error(S) \/ S.app_state.info_message # <<>>
  THEN [clear_error(S) EXCEPT !.app_state.info_message = <<>>]
  ELSE IF S.app_state.current_session_id # <<>>
  THEN [S EXCEPT !.cancel_flag = TRUE,
                 !.app_state.info_message = << "Cancellation requested..." >>]
  ELSE S

\* KeyEventResult::Escape
handle_escape(S) ==
  IF has_error(S) THEN clear_error(S)
  ELSE IF S.app_state.info_message # <<>>
  THEN [S EXCEPT !.app_state.info_message = <<>>]
  ELSE IF S.app_state.current_session_id # <<>>
  THEN [S EXCEPT !.cancel_flag = TRUE,
                 !.app_state.info_message =
                    IF S.app_state.activity_state = << "Idle" >>
                    THEN << "No agent is currently running." >>
                    ELSE << "Cancellation requested..." >>]
  ELSE S

handle_send_message_ungated(S, message) ==
  IF S.app_state.current_session_id = <<>> THEN S
  ELSE [S EXCEPT !.cancel_flag = FALSE,
                 !.backend_event_tx =
                    Append(@, [type |-> "SendUserMessage",
                               session_id |-> S.app_state.current_session_id[1],
                               message |-> message])]

\* KeyEventResult::SendMessage
handle_send_message(S, message) ==
  IF S.app_state.current_session_id = <<>> THEN S
  ELSE IF S.app_state.activity_state \in { << "Idle" >>, <<>> }
  THEN [S EXCEPT !.cancel_flag = FALSE,
                 !.backend_event_tx =
                    Append(@, [type |-> "SendUserMessage",
                               session_id |-> S.app_state.current_session_id[1],
                               message |-> message])]
  ELSE [S EXCEPT !.backend_event_tx =
                    Append(@, [type |-> "QueueUserMessage",
                               session_id |-> S.app_state.current_session_id[1],
                               message |-> message])]

KeyEscape ==
  /\ frame = "idle" /\ MayKey
  /\ Becomes(handle_escape(Cur))
  /\ used' = [used EXCEPT !.events = @ + 1]
  /\ Did("KeyEscape", "None", "None")
  /\ UNCHANGED frame

KeyEnter ==
  LET Handled(r) ==
        /\ Becomes(IF r.result.type = "SendMessage"
                   THEN handle_send_message([Cur EXCEPT !.input_manager = r.I],
                                            r.result.message)
                   ELSE Cur)
        /\ Did("KeyEnter", "None", r.result)
  IN /\ frame = "idle" /\ MayKey
     /\ Handled(handle_enter(input_manager))
     /\ used' = [used EXCEPT !.events = @ + 1]
     /\ UNCHANGED frame

\* a key the input manager hands to TextArea::input
KeyChar(c) ==
  /\ frame = "idle" /\ MayKey
  /\ Becomes([Cur EXCEPT !.input_manager.textarea = insert_str(@, << c >>)])
  /\ used' = [used EXCEPT !.events = @ + 1]
  /\ Did("KeyChar", "None", "None")
  /\ UNCHANGED frame

KeyBackspace ==
  /\ frame = "idle" /\ MayKey
  /\ Becomes([Cur EXCEPT !.input_manager.textarea = delete_backward(@, 1)])
  /\ used' = [used EXCEPT !.events = @ + 1]
  /\ Did("KeyBackspace", "None", "None")
  /\ UNCHANGED frame

KeyLeft ==
  /\ frame = "idle" /\ MayKey
  /\ Becomes([Cur EXCEPT !.input_manager.textarea = move_cursor_left(@)])
  /\ used' = [used EXCEPT !.events = @ + 1]
  /\ Did("KeyLeft", "None", "None")
  /\ UNCHANGED frame

\* Event::Paste
PasteEvent(pasted) ==
  /\ frame = "idle" /\ MayKey
  /\ Becomes([Cur EXCEPT !.input_manager =
                 handle_paste(@, str_replace(pasted, << CR >>, << NL >>))])
  /\ used' = [used EXCEPT !.events = @ + 1]
  /\ Did("Paste", "None", pasted)
  /\ UNCHANGED frame

\* UiEvent::DisplayError
ErrorMessage == << "Critical", "error", "occurred" >>

SetError ==
  /\ frame = "idle" /\ MayKey
  /\ Becomes(set_error(Cur, ErrorMessage))
  /\ used' = [used EXCEPT !.events = @ + 1]
  /\ Did("SetError", "None", "None")
  /\ UNCHANGED frame

\* the session the terminal is connected to, and what it is doing
ConnectSession ==
  /\ frame = "idle" /\ MayKey
  /\ app_state.current_session_id = <<>>
  /\ Becomes([Cur EXCEPT !.app_state.current_session_id = << "s1" >>])
  /\ used' = [used EXCEPT !.events = @ + 1]
  /\ Did("ConnectSession", "None", "None")
  /\ UNCHANGED frame

UpdateActivityState(state) ==
  /\ frame = "idle" /\ MayKey
  /\ app_state.activity_state # << state >>
  /\ Becomes([Cur EXCEPT !.app_state.activity_state = << state >>])
  /\ used' = [used EXCEPT !.events = @ + 1]
  /\ Did("UpdateActivityState", "None", "None")
  /\ UNCHANGED frame

AppNext ==
  \/ KeyEscape
  \/ KeyEnter
  \/ KeyChar("a")
  \/ KeyBackspace
  \/ KeyLeft
  \/ \E pasted \in Pastes : PasteEvent(pasted)
  \/ SetError
  \/ ConnectSession
  \/ \E state \in ActivityStates : UpdateActivityState(state)

AppSpec == Init /\ [][AppNext]_vars

\* ------------------------------------------------------------ the status area
\* What the draw phase shows above the input while errors, info messages,
\* the plan and the pending user message come and go, with a stream running.
PaintWidths == {30, 80}
Plans == { << [content |-> "task", status |-> "InProgress"] >>,
           << [content |-> "task", status |-> "Completed"],
              [content |-> "more", status |-> "Pending"] >> }

\* KeyEventResult::ShowInfo
ShowInfo ==
  /\ frame = "idle" /\ MayKey
  /\ Becomes([Cur EXCEPT !.app_state.info_message = << "Help" >>])
  /\ used' = [used EXCEPT !.events = @ + 1]
  /\ Did("ShowInfo", "None", "None")
  /\ UNCHANGED frame

\* UiEvent::UpdatePlan: the session's plan changed
UpdatePlan(plan) ==
  /\ frame = "idle" /\ MayKey
  /\ app_state.plan # << plan >>
  /\ Becomes([Cur EXCEPT !.app_state.plan = << plan >>, !.app_state.plan_dirty = TRUE])
  /\ used' = [used EXCEPT !.events = @ + 1]
  /\ Did("UpdatePlan", "None", "None")
  /\ UNCHANGED frame

\* KeyEventResult::TogglePlan
TogglePlan ==
  LET Toggled(S) ==
        [S EXCEPT !.plan_state = IF S.app_state.plan # <<>> THEN S.app_state.plan ELSE @,
                  !.plan_expanded = S.app_state.plan_expanded,
                  !.overlay_active = FALSE]
  IN /\ frame = "idle" /\ MayKey
     /\ Becomes(Toggled([Cur EXCEPT !.app_state.plan_expanded = ~@]))
     /\ used' = [used EXCEPT !.events = @ + 1]
     /\ Did("TogglePlan", "None", "None")
     /\ UNCHANGED frame

\* Phase 1 of the event loop, under the renderer lock from the sync to the
\* paint; `last` keeps what the status area shows.
Draw(width) ==
  LET Painted(S) ==
        /\ Becomes([S EXCEPT !.pending_history_lines = <<>>,
                             !.input_manager.textarea =
                                desired_height(@, Max(width - (PREFIX_COLS + 1), 0))])
        /\ Did("Draw", width, paint_status(S, width, desired_viewport_height(S, width)))
  IN /\ frame = "idle" /\ MayKey
     /\ Painted(prepare(sync_from_state(Cur, FALSE), width))
     /\ used' = [used EXCEPT !.events = @ + 1]
     /\ UNCHANGED frame

StatusNext ==
  \/ SetError
  \/ KeyEscape
  \/ ShowInfo
  \/ \E plan \in Plans : UpdatePlan(plan)
  \/ TogglePlan
  \/ SetPendingUserMessage
  \/ StartNewMessage
  \/ QueueTextDelta(<< "a", NL >>)
  \/ \E width \in PaintWidths : Draw(width)

StatusSpec == Init /\ [][StatusNext]_vars

\* --------------------------------------------------------- hidden tool calls
\* A tool whose block is not shown completes in the middle of a message that
\* arrives as streaming deltas, or as blocks filled by append_to_live_block.
MarkHiddenToolCompleted ==
  /\ frame = "idle" /\ MayDeliver
  /\ Becomes(mark_hidden_tool_completed(Cur))
  /\ used' = [used EXCEPT !.events = @ + 1]
  /\ Did("MarkHiddenToolCompleted", "None", "None")
  /\ UNCHANGED frame

EnsureLastBlockType(type) ==
  /\ frame = "idle" /\ MayDeliver
  /\ Becomes(ensure_last_block_type(Cur, type))
  /\ used' = [used EXCEPT !.events = @ + 1]
  /\ Did("EnsureLastBlockType", type, "None")
  /\ UNCHANGED frame

AppendToLiveBlock(text) ==
  /\ frame = "idle" /\ MayDeliver
  /\ Becomes(append_to_live_block(Cur, text))
  /\ used' = [used EXCEPT !.events = @ + 1]
  /\ Did("AppendToLiveBlock", "None", text)
  /\ UNCHANGED frame

HiddenToolNext ==
  \/ StartNewMessage
  \/ QueueTextDelta(<< "a", NL >>)
  \/ QueueThinkingDelta(<< "a", NL >>)
  \/ MarkHiddenToolCompleted
  \/ \E type \in {"PlainText", "Thinking"} : EnsureLastBlockType(type)
  \/ AppendToLiveBlock(<< "a" >>)
  \/ SetOverlayActive(FALSE)
  \/ Prepare(StartWidth)
  \/ DrainPending

HiddenToolSpec == Init /\ [][HiddenToolNext]_vars

\* -------------------------------------------------------- the animation timer
\* Phase 2 and 3 of the event loop: while needs_animation_timer() holds the
\* loop wakes after 50 ms and draws, whether or not an event arrives; a draw
\* that has begun runs to its end.
TimerNext ==
  \/ StartNewMessage
  \/ QueueTextDelta(<< "a", NL >>)
  \/ QueueThinkingDelta(<< "a", NL >>)
  \/ StartTool
  \/ FlushStreamingPending
  \/ ClearAllMessages
  \/ \E active \in BOOLEAN : SetOverlayActive(active)
  \/ Prepare(StartWidth)
  \/ DrainPending
  \/ \E d \in ElapseMs : Elapse(d)

\* The steps of a draw, told by the position they leave the loop in.
TimerWakes == frame = "idle" /\ needs_animation_timer(Cur) /\ frame' = "synced"
DrawPrepares == frame = "synced" /\ frame' = "prepared"
DrawEnds == frame = "prepared" /\ frame' = "idle"

TimerSpec ==
  /\ Init /\ [][TimerNext]_vars
  /\ WF_frame(TimerWakes)
  /\ WF_frame(DrawPrepares)
  /\ WF_frame(DrawEnds)

\* ------------------------------------------------------------ resized stream
\* A stream whose lines are wider than the narrow terminal, with draws at
\* either width between the deltas.
ResizeNext ==
  \/ StartNewMessage
  \/ QueueTextDelta(<< "a", "a", "a", NL >>)
  \/ QueueTextDelta(<< "a", NL >>)
  \/ QueueThinkingDelta(<< "a", "a", "a", NL >>)
  \/ FlushStreamingPending
  \/ \E width \in Widths : Draw(width)

ResizeSpec == Init /\ [][ResizeNext]_vars

\* ------------------------------------------------------- TerminalTuiApp::run
\* run() from the spawn of the event loop on: it awaits the loop, restores
\* the terminal, aborts the backend task and returns.
LoopResults == { "Ok", "Err(event stream)", "Err(draw)", "Err(event loop panicked)" }
CleanupResults == { "Ok", "Err(restore)" }

\* Fault variant of run_returns: a failed restore is returned first.
run_returns_cleanup_first(loop_result, cleanup_result) ==
  IF cleanup_result # "Ok" THEN cleanup_result ELSE loop_result

\* the value run() returns
run_returns(loop_result, cleanup_result) ==
  IF cleanup_result # "Ok" /\ loop_result = "Ok" THEN cleanup_result ELSE loop_result

\* the event loop returns: Quit or the end of the event stream (Ok), an error
\* of the event stream or of a draw, or the task panicked
EventLoopEnds(result) ==
  /\ run.pc = "loop" /\ frame = "idle"
  /\ Becomes([Cur EXCEPT !.run.pc = "joined", !.run.loop_result = result])
  /\ Did("EventLoopEnds", "None", result)
  /\ UNCHANGED << used, frame >>

\* tui::restore(), backend_task.abort(), and the return
FinishRun(cleanup_result) ==
  /\ run.pc = "joined"
  /\ Becomes([Cur EXCEPT !.run.pc = "done",
                         !.run.cleanup_result = cleanup_result,
                         !.run.backend_task = "aborted",
                         !.run.returned = run_returns(run.loop_result, cleanup_result)])
  /\ Did("FinishRun", "None", cleanup_result)
  /\ UNCHANGED << used, frame >>

RunNext ==
  \/ KeyEscape
  \/ KeyEnter
  \/ KeyChar("a")
  \/ SetError
  \/ ConnectSession
  \/ \E state \in ActivityStates : UpdateActivityState(state)
  \/ \E result \in LoopResults : EventLoopEnds(result)
  \/ \E cleanup_result \in CleanupResults : FinishRun(cleanup_result)

RunSpec == Init /\ [][RunNext]_vars

\* ------------------------------------------------------------ the two mutexes
\* The event loop, the forwarder of UI events and the translator of backend
\* responses, each taking its lock steps one at a time, in any interleaving.
Begin(task, steps) ==
  /\ mutexes.todo[task] = <<>>
  /\ Becomes([Cur EXCEPT !.mutexes.todo[task] = steps])
  /\ Did("Begin", task, "None")
  /\ UNCHANGED << used, frame >>

LockStep(task) ==
  /\ mutexes.todo[task] # <<>>
  /\ Head(mutexes.todo[task]).op = "lock"
  /\ mutexes.holder[Head(mutexes.todo[task]).mutex] = "None"
  /\ Becomes([Cur EXCEPT !.mutexes.holder[Head(mutexes.todo[task]).mutex] = task,
                         !.mutexes.todo[task] = Tail(@)])
  /\ Did("lock", task, Head(mutexes.todo[task]).mutex)
  /\ UNCHANGED << used, frame >>

UnlockStep(task) ==
  /\ mutexes.todo[task] # <<>>
  /\ Head(mutexes.todo[task]).op = "unlock"
  /\ Becomes([Cur EXCEPT !.mutexes.holder[Head(mutexes.todo[task]).mutex] = "None",
                         !.mutexes.todo[task] = Tail(@)])
  /\ Did("unlock", task, Head(mutexes.todo[task]).mutex)
  /\ UNCHANGED << used, frame >>

MutexNext ==
  \/ \E task \in Tasks : \E steps \in Begins(task) : Begin(task, steps)
  \/ \E task \in Tasks : LockStep(task)
  \/ \E task \in Tasks : UnlockStep(task)

MutexSpec == Init /\ [][MutexNext]_vars

\* ------------------------------------------------------- the textarea alone
\* The operations of TextArea in any order, on the textarea of the input
\* manager.  desired_height is what a draw calls first: it fills the wrap cache
\* that the vertical motions read.
MayEdit == used.events < MaxTextAreaOps

Edits(T) ==
  /\ frame = "idle" /\ MayEdit
  /\ Becomes([Cur EXCEPT !.input_manager.textarea = T])
  /\ used' = [used EXCEPT !.events = @ + 1]
  /\ UNCHANGED frame

InsertStr(text) == Edits(insert_str(input_manager.textarea, text)) /\ Did("insert_str", "None", "None")
InsertElement(text) == Edits(insert_element(input_manager.textarea, text)) /\ Did("insert_element", "None", "None")
DeleteBackward == Edits(delete_backward(input_manager.textarea, 1)) /\ Did("delete_backward", "None", "None")
DeleteForward == Edits(delete_forward(input_manager.textarea, 1)) /\ Did("delete_forward", "None", "None")
DeleteBackwardWord == Edits(delete_backward_word(input_manager.textarea)) /\ Did("delete_backward_word", "None", "None")
DeleteForwardWord == Edits(delete_forward_word(input_manager.textarea)) /\ Did("delete_forward_word", "None", "None")
KillToEndOfLine == Edits(kill_to_end_of_line(input_manager.textarea)) /\ Did("kill_to_end_of_line", "None", "None")
KillToBeginningOfLine == Edits(kill_to_beginning_of_line(input_manager.textarea)) /\ Did("kill_to_beginning_of_line", "None", "None")
Yank == Edits(yank(input_manager.textarea)) /\ Did("yank", "None", "None")
SetCursor(pos) == Edits(set_cursor(input_manager.textarea, pos)) /\ Did("set_cursor", "None", "None")
MoveCursorLeft == Edits(move_cursor_left(input_manager.textarea)) /\ Did("move_cursor_left", "None", "None")
MoveCursorRight == Edits(move_cursor_right(input_manager.textarea)) /\ Did("move_cursor_right", "None", "None")
MoveCursorUp == Edits(move_cursor_up(input_manager.textarea)) /\ Did("move_cursor_up", "None", "None")
MoveCursorDown == Edits(move_cursor_down(input_manager.textarea)) /\ Did("move_cursor_down", "None", "None")
MoveCursorToBeginningOfLine == Edits(move_cursor_to_beginning_of_line(input_manager.textarea)) /\ Did("move_cursor_to_beginning_of_line", "None", "None")
MoveCursorToEndOfLine == Edits(move_cursor_to_end_of_line(input_manager.textarea)) /\ Did("move_cursor_to_end_of_line", "None", "None")
WordLeft == Edits(set_cursor(input_manager.textarea, beginning_of_previous_word(input_manager.textarea))) /\ Did("word_left", "None", "None")
WordRight == Edits(set_cursor(input_manager.textarea, end_of_next_word(input_manager.textarea))) /\ Did("word_right", "None", "None")

\* replace_range on any range of the text; a range may end past the text
ReplaceSpans == {0, 1, 3}
TouchesPart(T, range) ==
  \E i \in 1..Len(T.elements) :
    /\ T.elements[i].start < range.end /\ T.elements[i].end > range.start
    /\ ~(range.start <= T.elements[i].start /\ T.elements[i].end <= range.end)

ReplaceRange(range, text) ==
  /\ Edits(replace_range(input_manager.textarea, range, text))
  /\ Did("replace_range", "None",
         IF TouchesPart(input_manager.textarea, range) THEN "part of an element" ELSE "None")

DesiredHeight(width) ==
  /\ input_manager.textarea.wrap_cache = <<>>
  /\ Edits(desired_height(input_manager.textarea, width))
  /\ Did("desired_height", "None", "None")

TextAreaNext ==
  \/ \E text \in TypedTexts : InsertStr(text)
  \/ InsertElement(ImagePlaceholder)
  \/ DeleteBackward
  \/ DeleteForward
  \/ DeleteBackwardWord
  \/ DeleteForwardWord
  \/ KillToEndOfLine
  \/ KillToBeginningOfLine
  \/ Yank
  \/ \E pos \in 0..Len(input_manager.textarea.text) : SetCursor(pos)
  \/ MoveCursorLeft
  \/ MoveCursorRight
  \/ MoveCursorUp
  \/ MoveCursorDown
  \/ MoveCursorToBeginningOfLine
  \/ MoveCursorToEndOfLine
  \/ WordLeft
  \/ WordRight
  \/ \E width \in TextAreaWidths : DesiredHeight(width)
  \/ \E start \in 0..Len(input_manager.textarea.text) :
       \E span \in ReplaceSpans : \E text \in { <<>>, << "a" >> } :
         ReplaceRange([start |-> start, end |-> start + span], text)

TextAreaSpec == Init /\ [][TextAreaNext]_vars

\* ======================================================================
\* Properties
\* ======================================================================
DeltaStep(kind, content) ==
  IF kind = "Text" THEN QueueTextDelta(content) ELSE QueueThinkingDelta(content)
IsDeltaStep == last'.op = "Delta" /\ used'.events = used.events + 1

\* what a collector holding `src` at width `w` gives when it is finalized, and
\* the lines its newline-terminated part gives
FinalLines(src, w) ==
  finalize_and_drain([NewStreamState EXCEPT !.buffer = src, !.width = w]).out
CompleteLines(src, w) ==
  commit_complete_lines([NewStreamState EXCEPT !.buffer = src, !.width = w]).out

\* C1, as the specification states it: at a fixed width, the lines of a kind
\* that were put into the history, followed by the kind's current tail, are
\* the rendering of all the deltas of that kind accepted since its collector
\* was last cleared.
C1_DrainedPlusTailIsRendering ==
  \A kind \in Kinds :
    LET g    == segment[kind]
        tail == current_tail(stream[kind])
    IN (g.src # <<>> /\ ~g.closed /\ ~g.resized)
       => g.out \o (IF tail = <<>> THEN <<>> ELSE render_markdown_lines(tail, g.width))
          = FinalLines(g.src, g.width)

\* C1, amended: at a fixed width, the lines of a kind that were put into the
\* history, followed by the lines still queued for it, are the rendering of
\* the newline-terminated part of the deltas accepted since the collector
\* was last cleared, and the tail is what follows the last newline; once the
\* collector is finalized the lines put into the history are the rendering
\* of all of them.  Nothing is lost and nothing appears twice.
C1_StreamAccounting ==
  \A kind \in Kinds :
    LET g == segment[kind]
        c == stream[kind]
    IN ~g.resized =>
         IF g.closed
         THEN /\ g.out = FinalLines(g.src, g.width)
              /\ c.buffer = <<>> /\ c.queued_lines = <<>>
         ELSE /\ c.buffer = g.src
              /\ g.out \o QueueLines(c) = CompleteLines(g.src, g.width)
              /\ current_tail(c) = SubSeq(g.src, RFindNL(g.src) + 1, Len(g.src))

\* C1 witness: a kind with lines in the history, lines still queued and an
\* unterminated tail, all at one width
C1_Witness ==
  \E kind \in Kinds :
    /\ ~segment[kind].closed /\ ~segment[kind].resized
    /\ segment[kind].out # <<>>
    /\ stream[kind].queued_lines # <<>>
    /\ current_tail(stream[kind]) # <<>>

\* C2: in a turn that is still open, a delta that arrives after a tool block
\* was started is accepted, not discarded.
C2_DeltaAfterToolAccepted ==
  [][ (IsDeltaStep /\ turn.open /\ active_message # <<>>
       /\ ToolsOf(active_message[1]) # {})
      => last'.outcome # "dropped" ]_vars

\* C3: between the last line of one stream kind and the first line of the
\* other kind that follows it in the same message, the history holds exactly
\* one blank separator line.
C3_OneBlankBetweenKinds ==
  \A i, j \in 1..Len(produced) :
    ( /\ i < j
      /\ produced[i].from \in Kinds
      /\ produced[j].from = Other(produced[i].from)
      /\ produced[j].msg = produced[i].msg
      /\ \A k \in (i+1)..(j-1) : produced[k].from = "sep" )
    => j = i + 2

\* C4: the header of a tool block that was started after text or thinking of
\* its message had been streamed has, in the history, exactly one blank line
\* right before it, and the message puts exactly one blank line after the
\* tool block.
C4_OneBlankAroundTool ==
  \A i \in 1..Len(produced) :
    (produced[i].line.style = "tool" /\ produced[i].line.lead)
    => /\ i >= 2 /\ IsBlank(produced[i-1].line)
       /\ i >= 3 => ~IsBlank(produced[i-2].line)
       /\ i < Len(produced) => IsBlank(produced[i+1].line)
       /\ i + 1 < Len(produced) =>
            ~(IsBlank(produced[i+2].line) /\ produced[i+2].msg = produced[i].msg)

\* C5: a message of which a text or thinking line was put into the history
\* is marked streamed_to_scrollback, while it is active and when it is
\* committed, and the lines its commit puts into the history are none of its
\* text or thinking.
AllMessages ==
  {active_message[i] : i \in 1..Len(active_message)}
  \cup {committed_messages[i] : i \in 1..Len(committed_messages)}
HasStreamed(n) ==
  n > 0 /\ \E i \in 1..Len(produced) : produced[i].from \in Kinds /\ produced[i].msg = n
C5_StreamedOnce ==
  /\ \A m \in AllMessages : HasStreamed(m.msg) => m.streamed_to_scrollback
  /\ \A i \in 1..Len(produced) :
       (produced[i].from = "commit" /\ HasStreamed(produced[i].msg))
       => ~produced[i].line.indent

\* C5 witness: a message with a tool block, of which lines were streamed, has
\* been committed and its commit has reached the history
C5_Witness ==
  \E i \in 1..Len(produced) :
    /\ produced[i].from = "commit" /\ produced[i].line.style = "tool"
    /\ HasStreamed(produced[i].msg)

\* C6: when a user message is appended, the queued lines and the tail of each
\* stream and the tool blocks of the active message enter the history
\* buffers, the stream state is cleared, the user message is the last
\* committed message, UserText only and the only one not yet rendered (its
\* lines come after), and no user message is pending.
IsUserStep == last'.op = "AddUserMessage" /\ used'.events = used.events + 1
NewEntries == SubSeq(produced', Len(produced) + 1, Len(produced'))
EntriesFrom(entries, from) == LinesOf(SelectSeq(entries, LAMBDA e : e.from = from))
FlushOf(kind) == QueueLines(stream[kind]) \o finalize_and_drain(stream[kind]).out
C6_UserMessageAfterActive ==
  [][ IsUserStep =>
      /\ Len(produced') >= Len(produced)
      /\ SubSeq(produced', 1, Len(produced)) = produced
      /\ EntriesFrom(NewEntries, "Text") = indent_lines(FlushOf("Text"))
      /\ EntriesFrom(NewEntries, "Thinking")
           = indent_lines(style_thinking_lines(FlushOf("Thinking")))
      /\ active_message # <<>> =>
           Len(SelectSeq(NewEntries, LAMBDA e : /\ e.line.style = "tool"
                                                /\ e.msg = active_message[1].msg))
           = Cardinality(ToolsOf(active_message[1]))
      /\ pending_history_lines' \o deferred_history_lines'
           \in { pending_history_lines \o deferred_history_lines \o LinesOf(NewEntries),
                 pending_history_lines \o LinesOf(NewEntries) \o deferred_history_lines }
      /\ active_message' = <<>>
      /\ stream' = [k \in Kinds |-> stream_state_clear(stream[k])]
      /\ policy' = NewPolicy
      /\ last_stream_kind' = "None"
      /\ ~streaming_open'
      /\ pending_user_message' = "None"
      /\ LET n == Len(committed_messages')
         IN /\ n >= 1
            /\ committed_rendered_count' = n - 1
            /\ committed_messages'[n].finalized
            /\ Len(committed_messages'[n].blocks) = 1
            /\ committed_messages'[n].blocks[1].type = "UserText"
    ]_vars

\* C6 witness: a user message was appended while a message with content was
\* active and a user message was pending, and stream lines came out of it
C6_Witness ==
  /\ last.op = "AddUserMessage" /\ last.outcome = "with-active"
  /\ pending_user_message = "None"
  /\ \E i \in 1..Len(pending_history_lines) : pending_history_lines[i].indent
  /\ \E i \in 1..Len(pending_history_lines) : pending_history_lines[i].style = "tool"

\* C7: while the overlay is active, no operation makes pending_history_lines
\* grow.
C7_NoPendingGrowthUnderOverlay ==
  [][ overlay_active => Len(pending_history_lines') <= Len(pending_history_lines) ]_vars

\* C8: a prepare that finds the overlay closed leaves deferred_history_lines
\* empty and puts the deferred lines, in their order and once, into
\* pending_history_lines, after the lines that were pending already.
IsPrepareStep == frame = "synced" /\ frame' = "prepared"
C8_DeferredFlushedInOrder ==
  [][ (IsPrepareStep /\ ~overlay_active) =>
      /\ deferred_history_lines' = <<>>
      /\ Len(pending_history_lines') =
           Len(pending_history_lines) + Len(deferred_history_lines)
           + (Len(produced') - Len(produced))
      /\ SubSeq(pending_history_lines', 1, Len(pending_history_lines))
           = pending_history_lines
      /\ \E a \in Len(pending_history_lines)..Len(pending_history_lines') :
           SubSeq(pending_history_lines', a + 1, a + Len(deferred_history_lines))
           = deferred_history_lines
    ]_vars

\* C8 witness: a prepare has just moved at least two deferred lines
C8_Witness ==
  /\ last.op = "Prepare" /\ last.outcome = "flushed-deferred"
  /\ Len(pending_history_lines) >= 2
  /\ deferred_history_lines = <<>>

\* C9: a delta that arrives while streaming is closed and a message is
\* active changes nothing: not the message, the stream queues and tails,
\* last_stream_kind or the history buffers.
C9_LateDeltaDropped ==
  [][ (\E kind \in Kinds, content \in Deltas : DeltaStep(kind, content))
       /\ ~streaming_open /\ active_message # <<>>
      => UNCHANGED << committed_messages, committed_rendered_count, active_message,
                      stream, policy, last_stream_kind, streaming_open,
                      pending_history_lines, deferred_history_lines, spinner_state >>
    ]_vars

\* C9 witness: a delta with content was dropped
C9_Witness ==
  /\ last.op = "Delta" /\ last.outcome = "dropped"
  /\ active_message # <<>> /\ ~streaming_open

\* C10: a delta that arrives while no message is active and no stream is
\* open starts an active message with streaming open, and its content is in
\* the tail or the queue of its kind.
C10_EarlyDeltaRecovers ==
  [][ \A kind \in Kinds, content \in Deltas :
        (~streaming_open /\ active_message = <<>> /\ DeltaStep(kind, content))
        => /\ active_message' # <<>>
           /\ ~active_message'[1].finalized
           /\ streaming_open'
           /\ last_stream_kind' = kind
           /\ stream'[kind].buffer = content
           /\ QueueLines(stream'[kind]) = CompleteLines(content, stream'[kind].width)
    ]_vars

\* C10 witness: a delta with content has started a message
C10_Witness ==
  /\ last.op = "Delta" /\ last.outcome = "recovered"
  /\ active_message # <<>> /\ streaming_open
  /\ stream[last.kind].buffer # <<>>

\* ----------------------------------------------------------------------- C11
IsToolUpdateStep ==
  last'.op \in {"AddOrUpdateToolParameter", "UpdateToolStatus", "AppendToolOutput"}

\* C11: a tool parameter update, status update or output append whose tool id
\* has no block in the active message, or that arrives with no active
\* message, changes nothing: no block is created, and the active message, the
\* committed messages and the lines on their way to the terminal stay as
\* they were.
C11_UnknownToolUpdateDropped ==
  [][ (IsToolUpdateStep /\ NoSuchTool(last'.kind))
      => UNCHANGED <<active_message, committed_messages, committed_rendered_count,
                     pending_history_lines, deferred_history_lines, produced>> ]_vars

\* A status update for a tool id the active message does not have, while it
\* has a tool block of another id.
C11_Witness ==
  /\ last.op = "UpdateToolStatus"
  /\ active_message # <<>>
  /\ ToolsOf(active_message[1]) # {}
  /\ last.kind \notin ToolsOf(active_message[1])

\* ----------------------------------------------------------------------- C12
\* C12: whatever StartTool events arrived, no message, active or committed,
\* holds two ToolUse blocks with the same id.
C12_UniqueToolIds ==
  \A m \in AllMessages :
    \A i, j \in 1..Len(m.blocks) :
      (/\ m.blocks[i].type = "ToolUse"
       /\ m.blocks[j].type = "ToolUse"
       /\ m.blocks[i].id = m.blocks[j].id) => i = j

\* ----------------------------------------------------------------------- C13
\* the lines a committed message gives to the history when it is flushed
ContributedLines(m) ==
  IF m.streamed_to_scrollback THEN as_history_lines_non_streamed_only(m, last_known_width)
  ELSE as_history_lines(m, last_known_width)

\* C13: every committed message that has been flushed to the history with at
\* least one line satisfies has_content(), whichever way it was committed
\* (a new turn, a user message, an instruction message) and whatever its
\* content, empty and whitespace-only included.
C13_CommittedHasContent ==
  \A i \in 1..committed_rendered_count :
    (ContributedLines(committed_messages[i]) # <<>> \/ committed_messages[i].streamed_to_scrollback)
      => has_content(committed_messages[i])

\* ----------------------------------------------------------------------- C14
Decided == watch.call.op = "decide"
HoldInEffect == watch.call.since_exit # -1 /\ watch.call.since_exit < 250

\* C14: a decide call that finds the policy in Smooth with no re-entry hold in
\* effect, on a snapshot with queued_lines >= 8 or oldest_age >= 120 ms,
\* leaves it in CatchUp and returns entered_catch_up with the plan
\* Batch(queued_lines); on a non-empty snapshot below both thresholds it
\* leaves it in Smooth and returns the plan Single.
C14_EnterCatchUp ==
  (Decided /\ watch.call.before.mode = "Smooth" /\ ~HoldInEffect) =>
    /\ (watch.call.q >= 8 \/ watch.call.age >= 120) =>
          /\ policy.mode = "CatchUp" /\ watch.call.mode = "CatchUp"
          /\ watch.call.entered_catch_up
          /\ watch.call.plan = "Batch" /\ watch.call.n = watch.call.q
    /\ (watch.call.q > 0 /\ watch.call.q < 8 /\ watch.call.age < 120) =>
          /\ policy.mode = "Smooth" /\ watch.call.mode = "Smooth"
          /\ ~watch.call.entered_catch_up
          /\ watch.call.plan = "Single"

\* The policy entered CatchUp on the age alone, with few lines queued.
C14_Witness ==
  /\ Decided /\ watch.call.before.mode = "Smooth" /\ ~HoldInEffect
  /\ watch.call.q < 8 /\ watch.call.age >= 120
  /\ policy.mode = "CatchUp" /\ watch.call.n = watch.call.q

\* ----------------------------------------------------------------------- C15
\* C15: a decide call on a non-empty snapshot that finds the policy in
\* CatchUp returns it to Smooth only if the snapshot has queued_lines <= 2
\* and oldest_age <= 40 ms and the decide calls of at least the 250 ms before
\* it all had such a snapshot; a snapshot over either limit keeps CatchUp and
\* starts the 250 ms anew.
C15_ExitAfterHold ==
  (Decided /\ watch.call.before.mode = "CatchUp" /\ watch.call.q > 0) =>
    /\ policy.mode = "Smooth" =>
          /\ watch.call.q <= 2 /\ watch.call.age <= 40
          /\ watch.call.calm >= 250
    /\ (watch.call.q > 2 \/ watch.call.age > 40) =>
          /\ policy.mode = "CatchUp"
          /\ policy.below_exit_threshold_since = -1
          /\ watch.calm = -1

\* The policy left CatchUp on a non-empty snapshot.
C15_Witness ==
  /\ Decided /\ watch.call.before.mode = "CatchUp" /\ watch.call.q > 0
  /\ policy.mode = "Smooth"

\* ----------------------------------------------------------------------- C16
\* C16: a decide call that finds the policy in Smooth less than 250 ms after
\* a decide call took it out of CatchUp keeps it in Smooth on a snapshot that
\* meets the enter threshold without being severe (queued_lines < 64 and
\* oldest_age < 300 ms), and enters CatchUp on a severe one; 250 ms or more
\* after the exit a snapshot that meets the enter threshold enters CatchUp.
C16_ReentryHold ==
  (/\ Decided /\ watch.call.before.mode = "Smooth" /\ watch.call.since_exit # -1
   /\ (watch.call.q >= 8 \/ watch.call.age >= 120)) =>
    IF watch.call.since_exit < 250
    THEN IF watch.call.q >= 64 \/ watch.call.age >= 300
         THEN policy.mode = "CatchUp" /\ watch.call.entered_catch_up
         ELSE policy.mode = "Smooth" /\ ~watch.call.entered_catch_up
    ELSE policy.mode = "CatchUp" /\ watch.call.entered_catch_up

\* Within the hold, a snapshot over the enter threshold was kept in Smooth.
C16_Witness ==
  /\ Decided /\ watch.call.before.mode = "Smooth"
  /\ watch.call.since_exit # -1 /\ watch.call.since_exit < 250
  /\ watch.call.q >= 8 /\ watch.call.q < 64 /\ watch.call.age < 300
  /\ policy.mode = "Smooth"

\* ----------------------------------------------------------------------- C17
\* C17: after a decide call on an empty snapshot the mode is Smooth and
\* neither timer is set, whatever the mode was before.
C17_EmptyQueueClearsTimers ==
  (Decided /\ watch.call.q = 0) =>
    /\ policy.mode = "Smooth"
    /\ policy.below_exit_threshold_since = -1
    /\ policy.last_catch_up_exit_at = -1

\* ----------------------------------------------------------------------- C18
\* the streamed lines a step put into the history
StreamedEntries == SelectSeq(NewEntries, LAMBDA e : e.from \in Kinds)

NewlineSeen ==
  \A kind \in Kinds :
    (\/ stream[kind].queued_lines # <<>>
     \/ (~segment[kind].closed /\ segment[kind].out # <<>>))
      => ContainsNL(stream[kind].buffer)

\* the delta without what follows its last newline
CutTail(content) == SubSeq(content, 1, RFindNL(content))

\* A delta of `kind` that is let in appends to the kind's queue exactly the
\* lines that the delta cut after its last newline would have appended, and
\* nothing when it holds no newline.
DeltaLeavesTail(kind, content) ==
  LET Before(c0) ==
        /\ Len(stream'[kind].queued_lines) >= Len(c0.queued_lines)
        /\ SubSeq(QueueLines(stream'[kind]), 1, Len(c0.queued_lines)) = QueueLines(c0)
        /\ SubSeq(QueueLines(stream'[kind]), Len(c0.queued_lines) + 1,
                  Len(stream'[kind].queued_lines))
             = IF ContainsNL(content)
               THEN commit_complete_lines(push_delta(c0, CutTail(content))).out
               ELSE <<>>
  IN last'.outcome # "dropped" =>
       Before(IF last'.outcome = "recovered" THEN stream_state_clear(stream[kind])
              ELSE stream[kind])

\* A commit tick moves lines from the front of a queue to the history and
\* nothing else.
TickDrainsQueue ==
  \A kind \in Kinds :
    \E n \in 0..Len(stream[kind].queued_lines) :
      /\ segment'[kind].out
           = segment[kind].out \o SubSeq(QueueLines(stream[kind]), 1, n)
      /\ QueueLines(stream'[kind])
           = SubSeq(QueueLines(stream[kind]), n + 1, Len(stream[kind].queued_lines))
      /\ stream'[kind].buffer = stream[kind].buffer

\* C19: no line of a kind is queued or drained before the kind's accumulated
\* source contains a newline; what follows the last newline is in no line
\* that a delta puts into the queue, and a commit tick only moves queued
\* lines, so the tail reaches the history through a flush alone.
C19_NewlineGating ==
  [][ /\ NewlineSeen'
      /\ IsDeltaStep =>
           \A content \in Deltas :
             DeltaStep(last'.kind, content) => DeltaLeavesTail(last'.kind, content)
      /\ IsPrepareStep => TickDrainsQueue ]_vars

\* A tick has drained a line of a kind whose collector holds an unfinished
\* line after the newline.
C19_Witness ==
  /\ last.op = "Prepare"
  /\ \E kind \in Kinds :
       /\ ~segment[kind].closed /\ segment[kind].out # <<>>
       /\ current_tail(stream[kind]) # <<>>

\* ----------------------------------------------------------------------- C20
\* the collector of `kind` was cleared in the step
ClearedInStep(kind) ==
  \/ stream'[kind].buffer = <<>>
  \/ IsDeltaStep /\ last'.outcome = "recovered"

\* The lines a delta with a newline adds to the queue of its kind are the
\* lines commit_complete_lines returned.  They are the lines that became
\* complete: put after the complete lines of the source as it was, they give
\* the complete lines of the source as it is.
ReturnsNewlyComplete(kind, before) ==
  LET Returned(queue) == SubSeq(queue, Len(before.queued_lines) + 1, Len(queue))
  IN CompleteLines(stream'[kind].buffer, stream'[kind].width)
       = CompleteLines(before.buffer, stream'[kind].width)
         \o Returned(QueueLines(stream'[kind]))

\* C20: between two clears of a collector its committed_line_count never
\* decreases, and every call of commit_complete_lines returns exactly the
\* rendered lines that became complete since the call before, none of them
\* twice and none left out.
C20_WatermarkMonotone ==
  [][ /\ \A kind \in Kinds :
           ClearedInStep(kind)
           \/ stream'[kind].committed_line_count >= stream[kind].committed_line_count
      /\ (IsDeltaStep /\ last'.outcome # "dropped"
          /\ RFindNL(stream'[last'.kind].buffer) > RFindNL(stream[last'.kind].buffer)) =>
           ReturnsNewlyComplete(last'.kind,
             IF last'.outcome = "recovered" THEN stream_state_clear(stream[last'.kind])
             ELSE stream[last'.kind]) ]_vars

\* ----------------------------------------------------------------------- C21
\* the lines of `kind` that the step handed over for the history
Returned(kind) ==
  SubSeq(segment'[kind].out, Len(segment[kind].out) + 1, Len(segment'[kind].out))

\* C21: after flush_pending both queues and both tails are empty and the
\* policy is in Smooth with no timer set; for each kind the lines returned are
\* the lines that were queued, in their order, followed by the finalized
\* remainder of the collector, whose last line is the unterminated one when
\* the source did not end in a newline.
C21_FlushPendingDrainsAll ==
  [][ last'.op = "FlushStreamingPending" =>
      /\ policy' = [mode |-> "Smooth", below_exit_threshold_since |-> -1,
                    last_catch_up_exit_at |-> -1]
      /\ \A kind \in Kinds :
           /\ stream'[kind].queued_lines = <<>>
           /\ stream'[kind].buffer = <<>>
           /\ current_tail(stream'[kind]) = <<>>
           /\ Returned(kind)
                = QueueLines(stream[kind]) \o finalize_and_drain(stream[kind]).out
           /\ ~IsSpaces(current_tail(stream[kind])) =>
                /\ Returned(kind) # <<>>
                /\ Returned(kind)[Len(Returned(kind))].txt # <<>> ]_vars

\* A flush returned a queued line and, after it, the line that no newline
\* had ended.
C21_Witness ==
  /\ last.op = "FlushStreamingPending"
  /\ \E kind \in Kinds :
       /\ segment[kind].closed /\ Len(segment[kind].out) >= 2
       /\ ContainsNL(segment[kind].src)
       /\ segment[kind].src[Len(segment[kind].src)] # NL

\* ----------------------------------------------------------------------- C22
TextOf(lines) == [i \in 1..Len(lines) |-> lines[i].txt]
IsPrefixOf(p, q) == Len(p) <= Len(q) /\ SubSeq(q, 1, Len(p)) = p

\* In one step, the first n lines of the queue of `kind` went to the history
\* before anything else of that kind, and the others stayed at the front of
\* the queue in their order.
LeftInOrder(kind, queued, out, n) ==
  /\ n <= Len(out) /\ SubSeq(out, 1, n) = SubSeq(queued, 1, n)
  /\ n < Len(queued) =>
       /\ Len(out) = n
       /\ \/ IsPrefixOf(SubSeq(queued, n + 1, Len(queued)),
                        TextOf(QueueLines(stream'[kind])))
          \/ last'.op = "ClearAllMessages" /\ stream'[kind].queued_lines = <<>>

\* C22: for each kind, the lines leave the queue (by a commit tick, by
\* flush_kind or by flush_pending) in the order in which they were put in,
\* however deltas, ticks and flushes follow each other, and a commit tick
\* returns no more lines than were queued.
C22_QueueOrder ==
  [][ \A kind \in Kinds :
        /\ \E n \in 0..Len(stream[kind].queued_lines) :
             LeftInOrder(kind, TextOf(QueueLines(stream[kind])),
                         TextOf(EntriesFrom(NewEntries, kind)), n)
        /\ IsPrepareStep =>
             Len(EntriesFrom(NewEntries, kind)) <= Len(stream[kind].queued_lines) ]_vars

\* A kind switch flushed a kind whose lines differ from each other.
C22_Witness ==
  /\ last.op = "Delta"
  /\ \E kind \in Kinds :
       /\ last.kind = Other(kind)
       /\ segment[kind].closed /\ Len(segment[kind].out) >= 2
       /\ segment[kind].out[1] # segment[kind].out[2]


\* C23: an Esc press takes exactly one step of the cascade.  With an error set
\* it clears the error and leaves the info message and the cancel flag alone;
\* otherwise, with an info message set, it clears the info message and leaves
\* the cancel flag alone; otherwise, with a session id, it sets the cancel flag
\* and writes "No agent is currently running." when the session is Idle and
\* "Cancellation requested..." when it is not; otherwise it does nothing.
C23_EscapeCascade ==
  [][ last'.op = "KeyEscape" =>
        /\ UNCHANGED << input_manager, backend_event_tx, info_message >>
        /\ IF current_error # <<>>
           THEN current_error' = <<>> /\ UNCHANGED << app_state, cancel_flag >>
           ELSE IF app_state.info_message # <<>>
           THEN /\ app_state' = [app_state EXCEPT !.info_message = <<>>]
                /\ UNCHANGED << current_error, cancel_flag >>
           ELSE IF app_state.current_session_id # <<>>
           THEN /\ cancel_flag'
                /\ app_state' = [app_state EXCEPT !.info_message =
                      IF app_state.activity_state = << "Idle" >>
                      THEN << "No agent is currently running." >>
                      ELSE << "Cancellation requested..." >>]
                /\ UNCHANGED current_error
           ELSE UNCHANGED << current_error, app_state, cancel_flag >> ]_vars

\* Esc, pressed with a session that is not idle and with neither an error nor
\* an info message, requested the cancellation.
C23_Witness ==
  /\ last.op = "KeyEscape"
  /\ cancel_flag
  /\ current_error = <<>>
  /\ app_state.activity_state = << "AgentRunning" >>
  /\ app_state.info_message = << "Cancellation requested..." >>


\* the events a step sent to the backend
Sent == SubSeq(backend_event_tx', Len(backend_event_tx) + 1, Len(backend_event_tx'))
IsSubmitStep == last'.op = "KeyEnter" /\ last'.outcome.type = "SendMessage"

\* C24 as stated: a submit to a session sends SendUserMessage only when the
\* session is Idle, sends QueueUserMessage in every other case, and never
\* sends both.
C24_SendOnlyWhenIdle ==
  [][ IsSubmitStep /\ app_state.current_session_id # <<>> =>
        /\ Len(Sent) = 1
        /\ Sent[1].type = IF app_state.activity_state = << "Idle" >>
                          THEN "SendUserMessage" ELSE "QueueUserMessage" ]_vars

\* C24: with a session id, a submit sends exactly one event carrying the
\* message: SendUserMessage when the activity state is Idle or not yet known,
\* QueueUserMessage in every other activity state.  Without a session id it
\* sends nothing.
C24_SubmitGate ==
  [][ IsSubmitStep =>
        Sent = IF app_state.current_session_id = <<>> THEN <<>>
               ELSE << [type |-> IF app_state.activity_state \in { << "Idle" >>, <<>> }
                                 THEN "SendUserMessage" ELSE "QueueUserMessage",
                        session_id |-> app_state.current_session_id[1],
                        message |-> last'.outcome.message] >> ]_vars

\* a message was submitted while the agent was running, and was queued
C24_Witness ==
  /\ last.op = "KeyEnter"
  /\ app_state.activity_state = << "AgentRunning" >>
  /\ backend_event_tx # <<>>
  /\ backend_event_tx[Len(backend_event_tx)].type = "QueueUserMessage"


\* the content pasted under a placeholder
PastedAs(I, placeholder) ==
  I.pending_pastes[CHOOSE i \in 1..Len(I.pending_pastes) :
                     I.pending_pastes[i][1] = placeholder][2]

\* the textarea text with its elements, from element n down to the first,
\* replaced by what was pasted under them
RECURSIVE WithOwnContent(_, _, _)
WithOwnContent(I, text, n) ==
  LET Put(e) == Slice(text, 0, e.start)
                \o PastedAs(I, Slice(I.textarea.text, e.start, e.end))
                \o Slice(text, e.end, Len(text))
  IN IF n = 0 THEN text
     ELSE WithOwnContent(I, Put(I.textarea.elements[n]), n - 1)

IsPasteStep == last'.op = "Paste"
\* the paste as the event loop hands it to handle_paste (what becomes of its
\* line ends is C26)
PastedText == str_replace(last'.outcome, << CR >>, << NL >>)
ElementTexts(I) ==
  [n \in 1..Len(I.textarea.elements) |->
     Slice(I.textarea.text, I.textarea.elements[n].start, I.textarea.elements[n].end)]

\* C25: a paste of more than 200 characters adds one element to the textarea
\* and records the pasted text under that element's text; a paste of 200
\* characters or fewer goes into the text as it is and records nothing; the
\* submitted message is the text with every element replaced by the text
\* pasted under it.
C25_PlaceholdersExpand ==
  [][ /\ IsPasteStep /\ Len(PastedText) > LARGE_PASTE_CHAR_THRESHOLD =>
           /\ Len(input_manager'.textarea.elements) = Len(input_manager.textarea.elements) + 1
           /\ Len(input_manager'.pending_pastes) = Len(input_manager.pending_pastes) + 1
           /\ \A n \in 1..Len(input_manager'.textarea.elements) :
                PastedAs(input_manager', ElementTexts(input_manager')[n])
                  \in {PastedText} \cup {input_manager.pending_pastes[i][2] :
                                           i \in 1..Len(input_manager.pending_pastes)}
           /\ input_manager'.pending_pastes[Len(input_manager'.pending_pastes)][2] = PastedText
      /\ IsPasteStep /\ Len(PastedText) <= LARGE_PASTE_CHAR_THRESHOLD =>
           /\ input_manager'.pending_pastes = input_manager.pending_pastes
           /\ Len(input_manager'.textarea.elements) = Len(input_manager.textarea.elements)
           /\ input_manager'.textarea.text =
                Slice(input_manager.textarea.text, 0, input_manager.textarea.cursor_pos)
                \o PastedText
                \o Slice(input_manager.textarea.text, input_manager.textarea.cursor_pos,
                         Len(input_manager.textarea.text))
      /\ IsSubmitStep =>
           last'.outcome.message =
             WithOwnContent(input_manager, input_manager.textarea.text,
                            Len(input_manager.textarea.elements)) ]_vars


\* what a paste step put into the input: the content stored under the new
\* placeholder, or the text inserted at the cursor
Reached ==
  IF Len(input_manager'.pending_pastes) > Len(input_manager.pending_pastes)
  THEN input_manager'.pending_pastes[Len(input_manager'.pending_pastes)][2]
  ELSE Slice(input_manager'.textarea.text, input_manager.textarea.cursor_pos,
             input_manager'.textarea.cursor_pos)
LineBreaks(s) ==
  Cardinality({i \in 1..Len(s) :
                 \/ s[i] = NL
                 \/ s[i] = CR /\ (i = Len(s) \/ s[i + 1] # NL)})

\* C26: a paste reaches the input with every CRLF pair and every lone CR
\* replaced by one LF, so with as many line breaks as it had.
C26_PasteLineEnds ==
  [][ IsPasteStep =>
        /\ Reached = str_replace(str_replace(last'.outcome, << CR, NL >>, << NL >>),
                                 << CR >>, << NL >>)
        /\ LineBreaks(Reached) = LineBreaks(last'.outcome) ]_vars


\* C27: the cursor is never strictly inside an element.
C27_CursorOutsideElements ==
  \A n \in 1..Len(input_manager.textarea.elements) :
    ~(/\ input_manager.textarea.elements[n].start < input_manager.textarea.cursor_pos
      /\ input_manager.textarea.cursor_pos < input_manager.textarea.elements[n].end)


\* ---------------------------------------------------------------------- C28
RECURSIVE ShownWords(_)
ShownWords(rows) == IF rows = <<>> THEN <<>> ELSE Head(rows) \o ShownWords(Tail(rows))

DismissHint == << "(Press", "Esc", "to", "dismiss)" >>

EndsWith(s, suffix) ==
  Len(s) >= Len(suffix) /\ SubSeq(s, Len(s) - Len(suffix) + 1, Len(s)) = suffix

StreamingState ==
  << streaming_open, last_stream_kind, stream, policy, active_message,
     committed_messages, pending_history_lines, spinner_state >>

OtherStatus == << plan_state, plan_expanded, info_message, pending_user_message, app_state >>

\* C28: while an error is set, a draw shows in the status area the error
\* message alone, ending with "(Press Esc to dismiss)", and none of the plan,
\* info and pending entries; setting and clearing the error leave those
\* entries as they were, so that the draw after the clearing shows them whole;
\* setting the error changes nothing of the streaming state.
C28_ErrorAloneInStatus ==
  [][ /\ (last'.op = "Draw" /\ current_error' # <<>>) =>
           /\ Len(last'.outcome) = 1
           /\ last'.outcome[1].kind = "Error"
           /\ EndsWith(ShownWords(last'.outcome[1].rows), DismissHint)
      /\ (last'.op = "Draw" /\ current_error' = <<>>) =>
           last'.outcome =
             [i \in 1..Len(status_entries(Cur')) |->
                [kind |-> status_entries(Cur')[i].kind,
                 rows |-> WrapWords(status_entries(Cur')[i].content,
                                    last'.kind, <<>>, <<>>)]]
      /\ last'.op = "SetError" =>
           current_error' # <<>> /\ UNCHANGED << StreamingState, OtherStatus >>
      /\ (last'.op = "KeyEscape" /\ current_error # <<>>) =>
           current_error' = <<>> /\ UNCHANGED << StreamingState, OtherStatus >>
    ]_vars

\* the same without the dismiss hint having to be in sight
C28_ExceptTheHint ==
  [][ /\ (last'.op = "Draw" /\ current_error' # <<>>) =>
           /\ Len(last'.outcome) = 1
           /\ last'.outcome[1].kind = "Error"
      /\ (last'.op = "Draw" /\ current_error' = <<>>) =>
           last'.outcome =
             [i \in 1..Len(status_entries(Cur')) |->
                [kind |-> status_entries(Cur')[i].kind,
                 rows |-> WrapWords(status_entries(Cur')[i].content,
                                    last'.kind, <<>>, <<>>)]]
      /\ last'.op = "SetError" =>
           current_error' # <<>> /\ UNCHANGED << StreamingState, OtherStatus >>
      /\ (last'.op = "KeyEscape" /\ current_error # <<>>) =>
           current_error' = <<>> /\ UNCHANGED << StreamingState, OtherStatus >>
    ]_vars


\* ---------------------------------------------------------------------- C29
BlockTypeOf(kind) == IF kind = "Text" THEN "PlainText" ELSE "Thinking"

LastBlock(S) == S.active_message[1].blocks[Len(S.active_message[1].blocks)]

\* a step that adds content of `type` after content of the same type, with a
\* hidden tool completed in between
BlockAfterHiddenTool(type) ==
  /\ last'.op = "EnsureLastBlockType" /\ last'.kind = type
  /\ needs_paragraph_break_after_hidden_tool
  /\ active_message # <<>> /\ active_message[1].blocks # <<>>
  /\ LastBlock(Cur).type = type

DeltaAfterHiddenTool(kind) ==
  /\ last'.op = "Delta" /\ last'.kind = kind /\ last'.outcome = "accepted"
  /\ needs_paragraph_break_after_hidden_tool
  /\ last_stream_kind = kind
  /\ segment[kind].src # <<>> /\ ~segment[kind].closed

\* C29: the first text or thinking content after mark_hidden_tool_completed
\* that has the kind of the content before it is parted from that content by a
\* paragraph break, and the flag is consumed so that no second break follows;
\* this for content added as blocks and for content queued as streaming deltas.
C29_ParagraphBreakAfterHiddenTool ==
  [][ /\ \A type \in {"PlainText", "Thinking"} :
           BlockAfterHiddenTool(type) =>
             /\ ~needs_paragraph_break_after_hidden_tool'
             /\ LastBlock(Cur').content = LastBlock(Cur).content \o << NL, NL >>
      /\ \A kind \in Kinds :
           DeltaAfterHiddenTool(kind) =>
             /\ ~needs_paragraph_break_after_hidden_tool'
             /\ segment'[kind].src = segment[kind].src \o << NL, NL, "a", NL >>
    ]_vars

\* the same for the content added as blocks alone
C29_BreakBetweenBlocks ==
  [][ \A type \in {"PlainText", "Thinking"} :
        BlockAfterHiddenTool(type) =>
          /\ ~needs_paragraph_break_after_hidden_tool'
          /\ LastBlock(Cur').content = LastBlock(Cur).content \o << NL, NL >>
    ]_vars


\* ---------------------------------------------------------------------- C30
\* a step in which start_new_message ran: the stream start, or a delta that
\* found no message and started one
StartedMessage ==
  last'.op = "StartNewMessage" \/ (last'.op = "Delta" /\ last'.outcome = "recovered")

\* the active message as start_active_message finds it, the pending stream
\* lines having been flushed into it
ActiveAtStart == DrainAndSync(flush_pending_at(Cur)).active_message

\* C30: when a message is started, the active message found is appended to the
\* committed list exactly when it has content, and a fresh empty message is
\* then the active one; never is a message both active and committed, and the
\* committed list only grows at its end until it is cleared.
C30_StartActiveMessage ==
  [][ /\ StartedMessage =>
           /\ Len(active_message') = 1
           /\ active_message'[1].blocks = <<>>
           /\ ~active_message'[1].finalized
           /\ committed_messages' =
                IF ActiveAtStart # <<>> /\ has_content(ActiveAtStart[1])
                THEN Append(committed_messages,
                            [ActiveAtStart[1] EXCEPT !.finalized = TRUE])
                ELSE committed_messages
      /\ Len(active_message') <= 1
      /\ \A i \in 1..Len(committed_messages') :
           /\ committed_messages'[i].finalized
           /\ active_message' # <<>> /\ active_message'[1].msg # 0
                => committed_messages'[i].msg # active_message'[1].msg
      /\ \/ IsPrefixOf(committed_messages, committed_messages')
         \/ last'.op = "ClearAllMessages" /\ committed_messages' = <<>>
    ]_vars

\* a message with content was committed by the start of the next one
C30_Witness ==
  /\ last.op = "StartNewMessage"
  /\ committed_messages # <<>>
  /\ has_content(committed_messages[Len(committed_messages)])
  /\ committed_messages[Len(committed_messages)].msg = active_message[1].msg - 1
  /\ active_message[1].blocks = <<>>


\* ---------------------------------------------------------------------- C31
\* C31: when run() has returned, the terminal restore was attempted and the
\* backend task is aborted whatever the event loop returned; an error of the
\* event loop is what run() returns, also when the restore failed; the
\* restore's error is returned only when the event loop ended without error.
C31_RunReturnsLoopError ==
  run.pc = "done" =>
    /\ run.cleanup_result \in CleanupResults
    /\ run.backend_task = "aborted"
    /\ run.loop_result # "Ok" => run.returned = run.loop_result
    /\ run.returned = "Err(restore)" => run.loop_result = "Ok"
    /\ (run.loop_result = "Ok" /\ run.cleanup_result = "Ok") => run.returned = "Ok"

\* the event loop failed and so did the restore
C31_Witness ==
  /\ run.pc = "done"
  /\ run.loop_result = "Err(event stream)"
  /\ run.cleanup_result = "Err(restore)"
  /\ run.returned = "Err(event stream)"
  /\ used.events > 0


\* ---------------------------------------------------------------------- C32
\* C32: in the order in which lines are handed to the history, no streamed
\* line of a turn comes before a line that renders the committed message of
\* an earlier turn.
C32_CommittedBeforeLaterTurn ==
  \A i \in 1..Len(produced) : \A j \in 1..Len(produced) :
    (i < j /\ produced[i].from \in Kinds /\ produced[j].from = "commit"
       /\ produced[j].msg # 0)
      => produced[i].msg <= produced[j].msg


\* ---------------------------------------------------------------------- C33
\* C33: in the prepare that finds the overlay closed, the lines deferred while
\* it was active enter pending_history_lines before every line this prepare
\* produces (commit tick, finalized messages): they follow at once the lines
\* that were pending already.
C33_DeferredBeforeLaterLines ==
  [][ (IsPrepareStep /\ ~overlay_active) =>
        IsPrefixOf(pending_history_lines \o deferred_history_lines,
                   pending_history_lines')
    ]_vars


\* ---------------------------------------------------------------------- C34
\* the lines rendering committed messages that a step hands to the history
CommitLinesAdded ==
  SelectSeq(SubSeq(produced', Len(produced) + 1, Len(produced')),
            LAMBDA e : e.from = "commit")

\* C34: committed_rendered_count never exceeds the number of committed
\* messages and only moves forward until the transcript is cleared; a step
\* renders committed messages only by moving it forward, and then it renders
\* the messages the cursor passes, each once and in their order.
C34_RenderedExactlyOnce ==
  [][ /\ committed_rendered_count' <= Len(committed_messages')
      /\ \/ committed_rendered_count' >= committed_rendered_count
         \/ committed_messages' = <<>> /\ committed_rendered_count' = 0
      /\ Len(produced') >= Len(produced) =>
           CommitLinesAdded =
             FinalizedLines(SubSeq(committed_messages', committed_rendered_count + 1,
                                   committed_rendered_count'),
                            last_known_width', <<>>)
    ]_vars

\* two committed messages have been rendered
C34_Witness ==
  /\ committed_rendered_count = 2
  /\ Len(committed_messages) = 2
  /\ \E i \in 1..Len(produced) : produced[i].from = "commit"


\* ---------------------------------------------------------------------- C35
RECURSIVE TextOfLines(_)
TextOfLines(lines) ==
  IF lines = <<>> THEN <<>> ELSE Head(lines).txt \o TextOfLines(Tail(lines))

Visible(source) == SelectSeq(source, LAMBDA ch : ch \notin {NL, SP})

\* C35: for a stream that began after a first draw had set the width, and
\* whatever the widths of the draws between its deltas, the text of the lines
\* of a kind put into the history, followed by that of the lines still queued,
\* is the text of the newline-terminated part of the deltas accepted, and all
\* of it once the collector is finalized: nothing drained is emitted again and
\* nothing is skipped.
C35_ResizeKeepsContent ==
  \A kind \in Kinds :
    LET g == segment[kind]
        c == stream[kind]
    IN g.width # 0 =>
       IF g.closed
       THEN TextOfLines(g.out) = Visible(g.src)
       ELSE TextOfLines(g.out \o QueueLines(c))
              = Visible(SubSeq(g.src, 1, RFindNL(g.src)))

\* the same at a width that did not change since the first delta
C35_FixedWidthKeepsContent ==
  \A kind \in Kinds :
    LET g == segment[kind]
        c == stream[kind]
    IN ~g.resized =>
       IF g.closed
       THEN TextOfLines(g.out) = Visible(g.src)
       ELSE TextOfLines(g.out \o QueueLines(c))
              = Visible(SubSeq(g.src, 1, RFindNL(g.src)))


\* ---------------------------------------------------------------------- C36
Queued(kind) == stream[kind].queued_lines # <<>>

C37_SevereAgeEmptiesQueues ==
  [][ (IsPrepareStep /\ stream_queue_snapshot(Cur).oldest_age >= SEVERE_OLDEST_AGE) =>
        \A kind \in Kinds : stream'[kind].queued_lines = <<>> ]_vars

\* a tick has just found a line of 300 ms among at least two queued lines and
\* handed them all on
C37_Witness ==
  /\ last.op = "Prepare" /\ last.kind = "Severe"
  /\ \A kind \in Kinds : ~Queued(kind)
  /\ Len(pending_history_lines) + Len(deferred_history_lines) >= 2


Outside(T) ==
  LET Covered(p) == \E i \in 1..Len(T.elements) :
                      T.elements[i].start < p /\ p <= T.elements[i].end
      Free(n) == CHOOSE p \in 1..Len(T.text) :
                   /\ ~Covered(p)
                   /\ Cardinality({q \in 1..p : ~Covered(q)}) = n
  IN [n \in 1..Cardinality({p \in 1..Len(T.text) : ~Covered(p)}) |-> T.text[Free(n)]]

CountOf(s, ch) == Cardinality({i \in 1..Len(s) : s[i] = ch})

ElementsWellFormed(T) ==
  /\ \A i \in 1..Len(T.elements) :
       /\ T.elements[i].start < T.elements[i].end
       /\ T.elements[i].start >= 0 /\ T.elements[i].end <= Len(T.text)
       /\ Slice(T.text, T.elements[i].start, T.elements[i].end) = ImagePlaceholder
  /\ \A i \in 1..(Len(T.elements) - 1) :
       /\ T.elements[i].start <= T.elements[i + 1].start
       /\ T.elements[i].end <= T.elements[i + 1].start

\* C39: after any sequence of edits the elements are sorted by start,
\* non-empty, pairwise disjoint, within the text, and each still covers the
\* placeholder it was inserted with; an edit that touches part of an element
\* takes the element off the list, and no edit other than a yank of killed
\* text leaves a piece of a placeholder outside the elements.
C39_ElementsStayWhole ==
  /\ [] ElementsWellFormed(input_manager.textarea)
  /\ [][ /\ (last'.op = "replace_range" /\ last'.outcome = "part of an element") =>
             Len(input_manager.textarea.elements') < Len(input_manager.textarea.elements)
         /\ last'.op # "yank" =>
             \A ch \in {"[", "]"} :
               CountOf(Outside(input_manager.textarea'), ch)
                 <= CountOf(Outside(input_manager.textarea), ch) ]_vars

\* an edit touched part of one element and took it whole; the other element
\* is still there, after a typed character
C39_Witness ==
  /\ last.op = "replace_range" /\ last.outcome = "part of an element"
  /\ Len(input_manager.textarea.elements) = 1
  /\ input_manager.textarea.text = << "a" >> \o ImagePlaceholder


\* ---------------------------------------------------------------------- C40
Held(task) == {m \in Mutexes : mutexes.holder[m] = task}
Awaits(task) ==
  IF mutexes.todo[task] # <<>> /\ Head(mutexes.todo[task]).op = "lock"
  THEN {Head(mutexes.todo[task]).mutex} ELSE {}
Blocked(task) == \E m \in Awaits(task) : mutexes.holder[m] \notin {"None", task}

====
